---------------------------- MODULE Spec2Model ----------------------------
(***************************************************************************)
(* A model of the reactive store of longsien/react-store (src/src/index.js) *)
(*                                                                         *)
(* JavaScript values are records: undefined, numbers and plain objects.    *)
(* An object carries the identity of its allocation (id), so that          *)
(* Object.is and "reference-identical" are decidable: the library never    *)
(* mutates an object in place, hence an id determines its content.         *)
(* A set() call runs to completion (listeners, cascade) as one action.     *)
(***************************************************************************)
EXTENDS Integers, Sequences, FiniteSets, TLC

VARIABLES
  stores,         \* the store objects, in creation order (index = identity)
  dependencyMap,  \* dependencyMap: per store, its dependents in insertion order
  proxies,        \* the handle objects (Proxy) created so far
  proxyCache,     \* proxyCache: per store, pathKey -> handle
  observers,      \* mounted useStore() components: handle and last snapshot
  lastOp,         \* what the last operation was and what it was seen to do
  steps,          \* how many operations ran since the program loaded
  promises,       \* the invocations of async functions that have not settled
  subscriptions,  \* the calls of a store's subscribe function, in order
  storage,        \* localStorage and sessionStorage: key -> item
  savers,         \* per persisted store, its backend, key and saveTimeout
  timers          \* setTimeout: the next timer id and the pending timers

\* The state of subscribers outside components and of persistence
\* localStorage and sessionStorage
StorageTypes == {"local", "session"}

\* The keys the programs store under
StorageKeys == {"k"}

\* storage.getItem(key) of a key that is not in the backend: null
NoItem == [t |-> "null"]

env == <<subscriptions, storage, savers, timers>>

vars ==
  <<stores, dependencyMap, proxies, proxyCache, observers, lastOp, steps,
    promises, subscriptions, storage, savers, timers>>

---------------------------------------------------------------------------
(* Bounds of the model *)

MaxChain == 4      \* stores of a chain: the base and its derived stores
MaxGraph == 3      \* stores of a dependency graph
MaxBases == 2      \* stores of a dependency graph that are not derived
MaxObservers == 1  \* components mounted on a dependency graph
MaxPathLen == 2    \* keys of a handle's path
MaxPathObservers == 1  \* components mounted on handles of paths
MaxOps == 2        \* set calls on handles of paths

---------------------------------------------------------------------------
(* Values *)

Keys == {"a", "b"}

\* The property names of the objects: the keys of the programs' data, and
\* those of the loading sentinel, of the error object and of an Error
Fields == Keys \cup {"loading", "error", "message", "status", "originalError"}

Undef == [t |-> "undef"]
Null == [t |-> "null"]
Num(n) == [t |-> "num", n |-> n]
Bool(b) == [t |-> "bool", b |-> b]
Str(s) == [t |-> "str", s |-> s]
Obj(i, fs) == [t |-> "obj", id |-> i, f |-> fs]
EmptyFields == [k \in Fields |-> Undef]

IsObj(v) == v.t = "obj"
IsNum(v) == v.t = "num"

\* Object.is: identity for objects, equality for primitives
ObjectIs(x, y) == IF IsObj(x) /\ IsObj(y) THEN x.id = y.id ELSE x = y

\* JavaScript truthiness of the modelled values
Truthy(v) == v \notin {Undef, Null, Num(0), Bool(FALSE), Str("")}

\* v > n for a number literal n (undefined and objects compare false)
GreaterThan(v, n) == IsNum(v) /\ v.n > n

\* obj?.[key]
GetProp(v, k) == IF IsObj(v) THEN v.f[k] ELSE Undef

RECURSIVE Ids(_)
Ids(v) == IF IsObj(v) THEN {v.id} \cup UNION {Ids(v.f[k]) : k \in Fields} ELSE {}

\* The identity a new allocation gets: one no live object has
Fresh(used) ==
  CHOOSE i \in 1..(Cardinality(used) + 1) :
    i \notin used /\ \A j \in 1..(i - 1) : j \in used

\* The identities of three new allocations
Fresh2(used) == Fresh(used \cup {Fresh(used)})
Fresh3(used) == Fresh(used \cup {Fresh(used), Fresh2(used)})

SeqToSet(s) == {s[i] : i \in DOMAIN s}

---------------------------------------------------------------------------
(* Path resolver *)

RECURSIVE getValueAtPath(_, _)
getValueAtPath(obj, path) ==
  IF path = <<>> THEN obj
  ELSE getValueAtPath(GetProp(obj, Head(path)), Tail(path))

\* Returns [v |-> the new value, used |-> the identities now in use].
\* Called with a non-empty path only (createSetState).
RECURSIVE setValueAtPath(_, _, _, _)
setValueAtPath(obj, path, value, used) ==
  IF ~IsObj(obj) THEN [v |-> value, used |-> used]
  ELSE
    LET i == Fresh(used)
        key == Head(path)
    IN IF Len(path) = 1
       THEN [v |-> Obj(i, [obj.f EXCEPT ![key] = value]), used |-> used \cup {i}]
       ELSE
         LET child == obj.f[key]
             \* obj?.[key] || {} : the {} literal is copied by the recursive
             \* call and never referenced, so it takes no identity here
             sub == IF Truthy(child) THEN child ELSE Obj(0, EmptyFields)
             r == setValueAtPath(sub, Tail(path), value, used \cup {i})
         IN [v |-> Obj(i, [obj.f EXCEPT ![key] = r.v]), used |-> r.used]

---------------------------------------------------------------------------
(* Handles *)

RECURSIVE Join(_)
Join(path) ==
  IF path = <<>> THEN ""
  ELSE IF Len(path) = 1 THEN path[1]
  ELSE path[1] \o "." \o Join(Tail(path))

\* A handle is the Proxy object that new Proxy(storeObj, ...) built in a
\* call createStoreProxy(storeObj, path).  Its identity is that call: the
\* store, the path, and how many Proxy objects of the same store and path
\* were built before it.
Proxy(s, path, n) == [obj |-> s, path |-> path, n |-> n]
NoHandle == Proxy(0, <<>>, 0)

\* getState(store) for a handle: store._obj
getState(h) == h.obj

\* createStoreProxy that never finds the handle in the cache
createStoreProxy_NoCache(px, cache, s, path) ==
  LET proxy == Proxy(s, path,
                     Cardinality({q \in px : q.obj = s /\ q.path = path}))
  IN [h |-> proxy,
      proxies |-> px \cup {proxy},
      proxyCache |-> [cache EXCEPT ![s] = (Join(path) :> proxy) @@ @],
      hit |-> Join(path) \in DOMAIN cache[s]]

\* createStoreProxy(storeObj, path): the handle h it returns, the handles
\* and the cache it leaves, and whether it found h in the cache (hit)
createStoreProxy(px, cache, s, path) ==
  IF Join(path) \in DOMAIN cache[s]
  THEN [h |-> cache[s][Join(path)], proxies |-> px, proxyCache |-> cache,
        hit |-> TRUE]
  ELSE LET proxy == Proxy(s, path,
                          Cardinality({q \in px : q.obj = s /\ q.path = path}))
       IN [h |-> proxy,
           proxies |-> px \cup {proxy},
           proxyCache |-> [cache EXCEPT ![s] = (Join(path) :> proxy) @@ @],
           hit |-> FALSE]

---------------------------------------------------------------------------
(* Client code: the compute functions of derived stores, the arguments of  *)
(* set.  These are the inputs of the library, drawn from small families.   *)

GuardLimit == 1

NoGetter == [kind |-> "none", x |-> NoHandle, y |-> NoHandle]
Getter(kind, x, y) == [kind |-> kind, x |-> x, y |-> y]

UnaryKinds == {"id", "pickA", "pos", "guard", "wrap"}
BinaryKinds == {"cond", "pair"}

\* getter(get), where get(h) yields st[getState(h)].value.
\*   id     get => get(x)
\*   pickA  get => get(x).a               (TypeError when get(x) is undefined)
\*   pos    get => get(x) > 0 ? 1 : 0
\*   guard  get => { const v = get(x); if (v > GuardLimit) throw ...; return v }
\*   wrap   get => ({ a: get(x) })
\*   cond   get => get(x) > 0 ? get(y) : 0
\*   pair   get => ({ a: get(x), b: get(y) })
\* [threw, val, reads (the stores passed to get, in order), used]
RunGetter(g, st, used) ==
  LET vx == st[getState(g.x)].value
      sx == getState(g.x)
      vy == IF g.y = NoHandle THEN Undef ELSE st[getState(g.y)].value
      sy == getState(g.y)
      R(threw, val, reads, u) ==
        [threw |-> threw, val |-> val, reads |-> reads, used |-> u]
  IN CASE g.kind = "id" -> R(FALSE, vx, <<sx>>, used)
       [] g.kind = "pickA" ->
            IF vx \in {Undef, Null} THEN R(TRUE, Undef, <<sx>>, used)
            ELSE R(FALSE, GetProp(vx, "a"), <<sx>>, used)
       [] g.kind = "pos" ->
            R(FALSE, IF GreaterThan(vx, 0) THEN Num(1) ELSE Num(0), <<sx>>, used)
       [] g.kind = "guard" ->
            IF GreaterThan(vx, GuardLimit) THEN R(TRUE, Undef, <<sx>>, used)
            ELSE R(FALSE, vx, <<sx>>, used)
       [] g.kind = "wrap" ->
            R(FALSE, Obj(Fresh(used), [EmptyFields EXCEPT !["a"] = vx]), <<sx>>,
              used \cup {Fresh(used)})
       [] g.kind = "cond" ->
            IF GreaterThan(vx, 0) THEN R(FALSE, vy, <<sx, sy>>, used)
            ELSE R(FALSE, Num(0), <<sx>>, used)
       [] g.kind = "pair" ->
            R(FALSE, Obj(Fresh(used), [EmptyFields EXCEPT !["a"] = vx, !["b"] = vy]),
              <<sx, sy>>,
              used \cup {Fresh(used)})

\* The pure function a getter computes from the values of its sources,
\* up to the identity of a freshly built object
GetterThrows(g, st) == RunGetter(g, st, {}).threw
GetterValue(g, st) == RunGetter(g, st, {}).val

Lits == {"undef", "zero", "one", "two", "empty", "objA", "objB", "tree"}
Updaters == {"same", "flip", "spread"}
Lit(n) == [k |-> "lit", n |-> n]
Fn(n) == [k |-> "fn", n |-> n]
IsUpdater(arg) == arg.k = "fn"

\* The value of a literal argument: undefined, null, 0, 1, 2, {}, { a: 1 },
\* { b: 1 }, { a: { a: 0, b: 0 }, b: { a: 0, b: 0 } }; an object literal
\* is a new object
LitValue(n, used) ==
  CASE n = "undef" -> Undef
    [] n = "null" -> Null
    [] n = "zero" -> Num(0)
    [] n = "one" -> Num(1)
    [] n = "two" -> Num(2)
    [] n = "empty" -> Obj(Fresh(used), EmptyFields)
    [] n = "objA" -> Obj(Fresh(used), [EmptyFields EXCEPT !["a"] = Num(1)])
    [] n = "objB" -> Obj(Fresh(used), [EmptyFields EXCEPT !["b"] = Num(1)])
    [] n = "tree" ->
         LET leaf == [EmptyFields EXCEPT !["a"] = Num(0), !["b"] = Num(0)]
         IN Obj(Fresh(used), [EmptyFields EXCEPT !["a"] = Obj(Fresh2(used), leaf),
                                                 !["b"] = Obj(Fresh3(used), leaf)])

\*   same    v => v
\*   flip    v => (v === 0 ? 1 : 0)
\*   spread  v => ({ ...v })
ApplyUpdater(n, v, used) ==
  CASE n = "same" -> v
    [] n = "flip" -> IF v = Num(0) THEN Num(1) ELSE Num(0)
    [] n = "spread" -> Obj(Fresh(used), IF IsObj(v) THEN v.f ELSE EmptyFields)

\* Async functions, the arguments of handle.async and of derive:
\*   one    async () => 1
\*   obj    async () => ({ a: 1 })
\*   wrap   async v => ({ a: v })
\*   check  async v => { if (v > GuardLimit) throw new Error(); return v }
\*   fail   async v => { const error = new Error('Network Error')
\*                       error.status = 404; throw error }
\* An invocation settles with a result (ok) or with an Error, whose message
\* and status are given; new Error() has message '' and no status.
AsyncFns == {"one", "obj", "wrap", "check", "fail"}

AsyncOutcome(fn, input, used) ==
  LET Ok(v, u) == [ok |-> TRUE, val |-> v, message |-> Undef,
                   status |-> Undef, used |-> u]
      Err(m, st) == [ok |-> FALSE, val |-> Undef, message |-> m,
                     status |-> st, used |-> used]
  IN CASE fn = "one" -> Ok(Num(1), used)
       [] fn = "obj" ->
            Ok(Obj(Fresh(used), [EmptyFields EXCEPT !["a"] = Num(1)]),
               used \cup {Fresh(used)})
       [] fn = "wrap" ->
            Ok(Obj(Fresh(used), [EmptyFields EXCEPT !["a"] = input]),
               used \cup {Fresh(used)})
       [] fn = "check" ->
            IF GreaterThan(input, GuardLimit) THEN Err(Str(""), Undef)
            ELSE Ok(input, used)
       [] fn = "fail" -> Err(Str("Network Error"), Num(404))

\* error.message || 'An error occurred', error.status || 'error'
ErrorMessage(o) == IF Truthy(o.message) THEN o.message ELSE Str("An error occurred")
ErrorStatus(o) == IF Truthy(o.status) THEN o.status ELSE Str("error")

\* An invocation of an async function that has not settled: by derive's
\* test call ("test"), by runAsyncOperation of store s ("run"), or by
\* handle.async of handle h ("load")
Promise(kind, s, h, fn, input) ==
  [kind |-> kind, s |-> s, h |-> h, fn |-> fn, input |-> input]

\* A sequence without its i-th element
Without(seq, i) == SubSeq(seq, 1, i - 1) \o SubSeq(seq, i + 1, Len(seq))

---------------------------------------------------------------------------
(* The store objects *)

\* { value, listeners } of store(), with the fields of a derived store.
\* lastRead is a history variable, not a field of the program: the stores
\* the most recent run of the getter passed to get.
\* An async derived store (createAsyncStoreObject) has isAsync, asyncFn,
\* isRunning and lastInputValue as well; a store without them reads them as
\* undefined, which is falsy.
StoreObj(value, isDerived, getter, deps, last) ==
  [value |-> value, listeners |-> <<>>, isDerived |-> isDerived,
   getter |-> getter, dependencies |-> deps, lastComputedValue |-> last,
   lastRead |-> deps,
   isAsync |-> FALSE, asyncFn |-> "", isRunning |-> FALSE,
   lastInputValue |-> Undef]

\* The identities of the objects the program still references
LiveIds ==
  UNION {Ids(stores[s].value) \cup Ids(stores[s].lastComputedValue)
           \cup Ids(stores[s].lastInputValue) : s \in DOMAIN stores}
  \cup UNION {Ids(promises[i].input) : i \in DOMAIN promises}
  \cup UNION {Ids(observers[o].snap) : o \in DOMAIN observers}
  \cup Ids(lastOp.ret)

\* What an operation is seen to do while it runs: the stores as it changes
\* them, the trace of the listeners it invokes and of the recomputations it
\* makes, in order, the observers that found a new snapshot, what it
\* returns, and (seen) the values of the stores at each moment it invokes
\* the listeners of a store.
Ctx(st, used) ==
  [stores |-> st, used |-> used, trace |-> <<>>, marks |-> {}, ret |-> Undef,
   started |-> <<>>, error |-> "", seen |-> <<>>]

\* Listener o of store s is invoked
Fire(s, o) == [e |-> "fire", s |-> s, o |-> o, cause |-> 0, res |-> ""]

\* computeDerivedValue runs for derived store d because store `cause`
\* changed (0: because of get()); res is "threw", "same" or "changed"
Recompute(d, cause, res) ==
  [e |-> "recompute", s |-> d, o |-> 0, cause |-> cause, res |-> res]

Fires(s, os) == [i \in DOMAIN os |-> Fire(s, os[i])]

\* getSnapshot of useStore: getState(store).value
getSnapshot(st, o) == st[getState(observers[o].h)].value

\* A listener subscribed by useSyncExternalStore: it schedules a re-render
\* of its component when the snapshot is not Object.is the one rendered
SnapshotChanged(st, o) == ~ObjectIs(getSnapshot(st, o), observers[o].snap)

\* state.listeners.forEach(listener => listener()); a listener is the
\* callback of a mounted component (its index in observers), the save
\* listener of a persisted store (0) or a callback passed to subscribe
\* (a negative number)
NotifyListeners(c, s) ==
  [c EXCEPT !.trace = @ \o Fires(s, c.stores[s].listeners),
            !.marks = @ \cup {o \in SeqToSet(c.stores[s].listeners)
                                     \cap DOMAIN observers :
                                SnapshotChanged(c.stores, o)},
            !.seen = IF c.stores[s].listeners = <<>> THEN @
                     ELSE Append(@, [s |-> s,
                                     vals |-> [i \in DOMAIN c.stores |->
                                                 c.stores[i].value]])]

RECURSIVE computeDerivedValue(_, _, _)
RECURSIVE NotifyDependents(_, _, _)

\* computeDerivedValue whose catch block resets the store and notifies
computeDerivedValue_ErrorResets(c, d, cause) ==
  LET r == RunGetter(c.stores[d].getter, c.stores, c.used)
      Log(res) == Append(c.trace, Recompute(d, cause, res))
  IN IF r.threw
     THEN NotifyListeners([c EXCEPT !.trace = Log("threw"),
                                    !.stores[d].value = Undef,
                                    !.stores[d].lastComputedValue = Undef], d)
     ELSE IF ObjectIs(r.val, c.stores[d].lastComputedValue)
     THEN [c EXCEPT !.trace = Log("same"), !.used = r.used, !.ret = r.val]
     ELSE [NotifyDependents(
             NotifyListeners([c EXCEPT !.stores[d].value = r.val,
                                       !.stores[d].lastComputedValue = r.val,
                                       !.used = r.used,
                                       !.trace = Log("changed")], d),
             dependencyMap[d], d)
             EXCEPT !.ret = r.val]

\* computeDerivedValue without the Object.is test: it always notifies
computeDerivedValue_AlwaysNotify(c, d, cause) ==
  LET r == RunGetter(c.stores[d].getter, c.stores, c.used)
      Log(res) == Append(c.trace, Recompute(d, cause, res))
  IN IF r.threw
     THEN [c EXCEPT !.trace = Log("threw"),
                    !.ret = c.stores[d].lastComputedValue]
     ELSE [NotifyDependents(
             NotifyListeners(
               [c EXCEPT !.stores[d].value = r.val,
                         !.stores[d].lastComputedValue = r.val,
                         !.used = r.used,
                         !.trace = Log(IF ObjectIs(r.val,
                                                   c.stores[d].lastComputedValue)
                                       THEN "same" ELSE "changed")], d),
             dependencyMap[d], d)
             EXCEPT !.ret = r.val]

\* computeDerivedValue without the cascade to the dependents
computeDerivedValue_NoCascade(c, d, cause) ==
  LET r == RunGetter(c.stores[d].getter, c.stores, c.used)
      Log(res) == Append(c.trace, Recompute(d, cause, res))
  IN IF r.threw
     THEN [c EXCEPT !.trace = Log("threw"),
                    !.stores[d].lastRead = SeqToSet(r.reads),
                    !.ret = c.stores[d].lastComputedValue]
     ELSE IF ObjectIs(r.val, c.stores[d].lastComputedValue)
     THEN [c EXCEPT !.trace = Log("same"), !.used = r.used, !.ret = r.val,
                    !.stores[d].lastRead = SeqToSet(r.reads)]
     ELSE [NotifyListeners([c EXCEPT !.stores[d].value = r.val,
                                     !.stores[d].lastComputedValue = r.val,
                                     !.stores[d].lastRead = SeqToSet(r.reads),
                                     !.used = r.used,
                                     !.trace = Log("changed")], d)
             EXCEPT !.ret = r.val]

\* computeDerivedValue(derivedStoreObj, simpleGet), called because of
\* `cause` (a store that changed, or 0 for get()).  c.ret is its result.
computeDerivedValue(c, d, cause) ==
  LET r == RunGetter(c.stores[d].getter, c.stores, c.used)
      Log(res) == Append(c.trace, Recompute(d, cause, res))
  IN IF r.threw
     THEN [c EXCEPT !.trace = Log("threw"),
                    !.stores[d].lastRead = SeqToSet(r.reads),
                    !.ret = c.stores[d].lastComputedValue]
     ELSE IF ObjectIs(r.val, c.stores[d].lastComputedValue)
     THEN [c EXCEPT !.trace = Log("same"), !.used = r.used, !.ret = r.val,
                    !.stores[d].lastRead = SeqToSet(r.reads)]
     ELSE
       LET c1 == [c EXCEPT !.stores[d].value = r.val,
                           !.stores[d].lastComputedValue = r.val,
                           !.stores[d].lastRead = SeqToSet(r.reads),
                           !.used = r.used,
                           !.trace = Log("changed")]
           c2 == NotifyListeners(c1, d)
           c3 == NotifyDependents(c2, dependencyMap[d], d)
       IN [c3 EXCEPT !.ret = r.val]

\* dependencyMap.get(state).forEach(derivedStore => computeDerivedValue(...))
NotifyDependents(c, deps, cause) ==
  IF deps = <<>> THEN c
  ELSE NotifyDependents(computeDerivedValue(c, Head(deps), cause),
                        Tail(deps), cause)

\* The function createSetState(state, path) returns, applied to a resolved
\* argument: nextValue is nextValueOrUpdater, or its result on currentValue
CurrentValue(st, s, path) ==
  IF path = <<>> THEN st[s].value ELSE getValueAtPath(st[s].value, path)

NextValue(arg, current, used) ==
  IF IsUpdater(arg) THEN ApplyUpdater(arg.n, current, used)
  ELSE LitValue(arg.n, used)

\* createSetState that recomputes the dependents before it invokes the
\* listeners
createSetState_DependentsFirst(c, s, path, arg) ==
  LET currentValue == CurrentValue(c.stores, s, path)
      nextValue == NextValue(arg, currentValue, c.used)
      u1 == c.used \cup Ids(nextValue)
  IN IF ObjectIs(nextValue, currentValue) THEN c
     ELSE
       LET w == IF path = <<>> THEN [v |-> nextValue, used |-> u1]
                ELSE setValueAtPath(c.stores[s].value, path, nextValue, u1)
           c1 == [c EXCEPT !.stores[s].value = w.v, !.used = w.used]
           c2 == NotifyDependents(c1, dependencyMap[s], s)
       IN NotifyListeners(c2, s)

\* createSetState without the Object.is test: it always writes and notifies
createSetState_AlwaysWrite(c, s, path, arg) ==
  LET currentValue == CurrentValue(c.stores, s, path)
      nextValue == NextValue(arg, currentValue, c.used)
      u1 == c.used \cup Ids(nextValue)
      w == IF path = <<>> THEN [v |-> nextValue, used |-> u1]
           ELSE setValueAtPath(c.stores[s].value, path, nextValue, u1)
      c1 == [c EXCEPT !.stores[s].value = w.v, !.used = w.used]
      c2 == NotifyListeners(c1, s)
  IN NotifyDependents(c2, dependencyMap[s], s)

createSetState(c, s, path, arg) ==
  LET currentValue == CurrentValue(c.stores, s, path)
      nextValue == NextValue(arg, currentValue, c.used)
      u1 == c.used \cup Ids(nextValue)
  IN IF ObjectIs(nextValue, currentValue) THEN c
     ELSE
       LET w == IF path = <<>> THEN [v |-> nextValue, used |-> u1]
                ELSE setValueAtPath(c.stores[s].value, path, nextValue, u1)
           c1 == [c EXCEPT !.stores[s].value = w.v, !.used = w.used]
           c2 == NotifyListeners(c1, s)
       IN NotifyDependents(c2, dependencyMap[s], s)

\* The tracking get registering the store read as a dependent of the store
\* being computed
RECURSIVE AddDependent_Reversed(_, _, _)
AddDependent_Reversed(dm, reads, d) ==
  IF reads = <<>> THEN dm
  ELSE AddDependent_Reversed(
         [dm EXCEPT ![d] =
            IF Head(reads) \in SeqToSet(@) THEN @ ELSE Append(@, Head(reads))],
         Tail(reads), d)

\* dependencyMap.get(targetStoreObj).add(storeObj), for each store read
RECURSIVE AddDependent(_, _, _)
AddDependent(dm, reads, d) ==
  IF reads = <<>> THEN dm
  ELSE AddDependent(
         [dm EXCEPT ![Head(reads)] =
            IF d \in SeqToSet(@) THEN @ ELSE Append(@, d)],
         Tail(reads), d)

\* The store object createDerivedStore(getter) builds: computeValue() runs
\* the getter with the tracking get; on a throw the value stays undefined
createDerivedStore(getter, st, used) ==
  LET r == RunGetter(getter, st, used)
  IN [obj |-> StoreObj(IF r.threw THEN Undef ELSE r.val, TRUE, getter,
                       SeqToSet(r.reads), IF r.threw THEN Undef ELSE r.val),
      reads |-> r.reads]

\* The record of an operation that ran in context c
OpRecord(op, h, arg, threw, c) ==
  [op |-> op, h |-> h, arg |-> arg, threw |-> threw, error |-> "",
   ret |-> c.ret,
   prop |-> "", handle |-> NoHandle, hit |-> FALSE,
   trace |-> c.trace, marks |-> c.marks, seen |-> c.seen]

NoArg == Lit("undef")

\* The components whose listener found a new snapshot render again, and
\* read the snapshot of the state the operation left
Rerender(c) ==
  [o \in DOMAIN observers |->
     IF o \in c.marks
     THEN [observers[o] EXCEPT !.snap = getSnapshot(c.stores, o)]
     ELSE observers[o]]

---------------------------------------------------------------------------
(* Operations *)

\* store(initialValue), initialValue not a function
Store(lit) ==
  /\ LET s == Len(stores) + 1
         v == LitValue(lit, LiveIds)
         p == createStoreProxy(proxies, Append(proxyCache, <<>>), s, <<>>)
     IN /\ stores' = Append(stores, StoreObj(v, FALSE, NoGetter, {}, Undef))
        /\ dependencyMap' = Append(dependencyMap, <<>>)
        /\ proxies' = p.proxies
        /\ proxyCache' = p.proxyCache
        /\ lastOp' = [OpRecord("store", NoHandle, Lit(lit), FALSE, Ctx(stores, {}))
                         EXCEPT !.handle = p.h]
  /\ UNCHANGED observers

\* store(getter), getter a function
StoreDerived(g) ==
  /\ LET s == Len(stores) + 1
         d == createDerivedStore(g, stores, LiveIds)
         p == createStoreProxy(proxies, Append(proxyCache, <<>>), s, <<>>)
     IN /\ stores' = Append(stores, d.obj)
        /\ dependencyMap' = AddDependent(Append(dependencyMap, <<>>), d.reads, s)
        /\ proxies' = p.proxies
        /\ proxyCache' = p.proxyCache
        /\ lastOp' = [OpRecord("derive", NoHandle, NoArg, FALSE, Ctx(stores, {}))
                         EXCEPT !.handle = p.h]
  /\ UNCHANGED observers

ReadOnlyError ==
  "Cannot set value on derived store. Derived stores are read-only."

\* handle.set without the isDerived test: it writes derived stores too
Set_NoDerivedTest(h, arg) ==
  /\ LET s == getState(h)
         c == createSetState(Ctx(stores, LiveIds), s, h.path, arg)
     IN /\ stores' = c.stores
        /\ observers' = Rerender(c)
        /\ lastOp' = OpRecord("set", h, arg, FALSE, c)
  /\ UNCHANGED <<dependencyMap, proxies, proxyCache>>

\* handle.set(data)
Set(h, arg) ==
  /\ LET s == getState(h)
     IN IF stores[s].isDerived
        THEN /\ lastOp' = [OpRecord("set", h, arg, TRUE, Ctx(stores, {}))
                             EXCEPT !.error = ReadOnlyError]
             /\ UNCHANGED <<stores, observers>>
        ELSE LET c == createSetState(Ctx(stores, LiveIds), s, h.path, arg)
             IN /\ stores' = c.stores
                /\ observers' = Rerender(c)
                /\ lastOp' = OpRecord("set", h, arg, FALSE, c)
  /\ UNCHANGED <<dependencyMap, proxies, proxyCache>>

\* What handle.get() returns for a handle of a store that is not derived
proxyGet(st, h) ==
  IF Len(h.path) > 0 THEN getValueAtPath(st[getState(h)].value, h.path)
  ELSE st[getState(h)].value

\* handle.get()
Get(h) ==
  /\ LET s == getState(h)
     IN IF stores[s].isDerived
        THEN LET c == computeDerivedValue(Ctx(stores, LiveIds), s, 0)
             IN /\ stores' = c.stores
                /\ observers' = Rerender(c)
                /\ lastOp' = OpRecord("get", h, NoArg, FALSE, c)
        ELSE /\ lastOp' = OpRecord("get", h, NoArg, FALSE,
                            [Ctx(stores, {}) EXCEPT !.ret = proxyGet(stores, h)])
             /\ UNCHANGED <<stores, observers>>
  /\ UNCHANGED <<dependencyMap, proxies, proxyCache>>

\* The names the get trap of a handle answers itself
MemberNames ==
  {"_path", "_obj", "value", "listeners", "isDerived",
   "get", "set", "local", "session", "async"}

\* What handle[prop] is for a member that is a function or an internal
\* object of the handle
Member(n) == [t |-> "member", n |-> n]

\* handle[prop]: the get trap answers the member names itself (value is
\* the value of the store, whatever the handle's path); any other prop
\* throws on a derived store and is the handle of the longer path otherwise
Access(h, prop) ==
  /\ IF prop \in MemberNames
     THEN /\ lastOp' =
               [OpRecord("access", h, NoArg, FALSE,
                         [Ctx(stores, {}) EXCEPT
                            !.ret = CASE prop = "value" -> stores[getState(h)].value
                                      [] prop = "isDerived" ->
                                           Bool(stores[getState(h)].isDerived)
                                      [] OTHER -> Member(prop)])
                  EXCEPT !.prop = prop]
          /\ UNCHANGED <<proxies, proxyCache>>
     ELSE IF stores[getState(h)].isDerived
     THEN /\ lastOp' = [OpRecord("access", h, NoArg, TRUE, Ctx(stores, {}))
                             EXCEPT !.prop = prop,
                                    !.error = "Property not supported on derived stores"]
          /\ UNCHANGED <<proxies, proxyCache>>
     ELSE LET p == createStoreProxy(proxies, proxyCache, getState(h),
                                    Append(h.path, prop))
          IN /\ proxies' = p.proxies
             /\ proxyCache' = p.proxyCache
             /\ lastOp' = [OpRecord("access", h, NoArg, FALSE, Ctx(stores, {}))
                             EXCEPT !.prop = prop, !.handle = p.h,
                                    !.hit = p.hit]
  /\ UNCHANGED <<stores, dependencyMap, observers>>

\* A component calling useStore(handle) mounts: it renders getSnapshot()
\* and subscribes its listener to the handle's store
Mount(h) ==
  /\ LET s == getState(h)
         o == Len(observers) + 1
     IN /\ observers' = Append(observers, [h |-> h, snap |-> stores[s].value])
        /\ stores' = [stores EXCEPT ![s].listeners = Append(@, o)]
        /\ lastOp' = OpRecord("mount", h, NoArg, FALSE, Ctx(stores, {}))
  /\ UNCHANGED <<dependencyMap, proxies, proxyCache>>

\* The setter useStore(handle) returned to component o:
\* createSetState(getState(store), [])
HookSet(o, arg) ==
  /\ LET s == getState(observers[o].h)
         c == createSetState(Ctx(stores, LiveIds), s, <<>>, arg)
     IN /\ stores' = c.stores
        /\ observers' = Rerender(c)
        /\ lastOp' = OpRecord("hookset", observers[o].h, arg, FALSE, c)
  /\ UNCHANGED <<dependencyMap, proxies, proxyCache>>

\* handle.async(asyncFn).  On a derived store the function is called with a
\* get and its outcome only logged; otherwise it is called with no argument
\* and its outcome is written at the handle's path when it settles.
Async(h, fn) ==
  /\ promises' = Append(promises,
                        Promise(IF stores[getState(h)].isDerived
                                THEN "ignored" ELSE "load",
                                getState(h), h, fn, Undef))
  /\ lastOp' = [OpRecord("async", h, NoArg, FALSE, Ctx(stores, {}))
                  EXCEPT !.prop = fn, !.handle = h]
  /\ UNCHANGED <<stores, dependencyMap, proxies, proxyCache, observers>>

\* The object written when an invocation of handle.async rejects
LoadError(o, used) ==
  Obj(Fresh(used \cup {Fresh(used)}),
      [EmptyFields EXCEPT
         !["error"] = Bool(TRUE),
         !["message"] = ErrorMessage(o),
         !["status"] = ErrorStatus(o),
         !["originalError"] =
            Obj(Fresh(used), [EmptyFields EXCEPT !["message"] = o.message,
                                                 !["status"] = o.status])])

\* What createSetState is given when the invocation settles with o
Settled(o, used) == IF o.ok THEN o.val ELSE LoadError(o, used)

\* createSetState(state, path)(v) that does not recompute the dependents
WriteValue_NoDependents(c, s, path, v) ==
  LET currentValue == CurrentValue(c.stores, s, path)
      u1 == c.used \cup Ids(v)
  IN IF ObjectIs(v, currentValue) THEN c
     ELSE
       LET w == IF path = <<>> THEN [v |-> v, used |-> u1]
                ELSE setValueAtPath(c.stores[s].value, path, v, u1)
           c1 == [c EXCEPT !.stores[s].value = w.v, !.used = w.used]
       IN NotifyListeners(c1, s)

\* createSetState(state, path)(v) for a value v that is already built
WriteValue(c, s, path, v) ==
  LET currentValue == CurrentValue(c.stores, s, path)
      u1 == c.used \cup Ids(v)
  IN IF ObjectIs(v, currentValue) THEN c
     ELSE
       LET w == IF path = <<>> THEN [v |-> v, used |-> u1]
                ELSE setValueAtPath(c.stores[s].value, path, v, u1)
           c1 == [c EXCEPT !.stores[s].value = w.v, !.used = w.used]
           c2 == NotifyListeners(c1, s)
       IN NotifyDependents(c2, dependencyMap[s], s)

\* The i-th pending invocation of handle.async settles: the .then or the
\* .catch callback runs
Settle(i) ==
  /\ promises[i].kind \in {"load", "ignored"}
  /\ LET p == promises[i]
         o == AsyncOutcome(p.fn, p.input, LiveIds)
         c == IF p.kind = "ignored" THEN Ctx(stores, LiveIds)
              ELSE WriteValue(Ctx(stores, o.used), p.s, p.h.path,
                              Settled(o, o.used))
     IN /\ stores' = c.stores
        /\ observers' = Rerender(c)
        /\ lastOp' = [OpRecord("settle", p.h, NoArg, FALSE, c)
                        EXCEPT !.prop = p.fn, !.hit = o.ok]
  /\ promises' = Without(promises, i)
  /\ UNCHANGED <<dependencyMap, proxies, proxyCache>>

---------------------------------------------------------------------------
(* The library with handle.derive and async derived stores                 *)

ReferenceError == "ReferenceError: simpleGet is not defined"

\* { loading: true }, a new object
LoadingValue(used) ==
  Obj(Fresh(used), [EmptyFields EXCEPT !["loading"] = Bool(TRUE)])

\* createAsyncStoreObject(asyncFn), with the getter derive gives it: the
\* getter of kind "async" reads the store of handle h and returns the
\* store's own value
createAsyncStoreObject(fn, h, used) ==
  [StoreObj(LoadingValue(used), TRUE, Getter("async", h, NoHandle), {}, Undef)
     EXCEPT !.isAsync = TRUE, !.asyncFn = fn]

\* runAsyncOperation that leaves the value as it is while it runs
runAsyncOperation_KeepValue(c, a, inputValue) ==
  IF c.stores[a].isRunning THEN c
  ELSE
    LET c1 == [c EXCEPT !.stores[a].isRunning = TRUE,
                        !.started = Append(@, Promise("run", a, NoHandle,
                                                      c.stores[a].asyncFn,
                                                      inputValue))]
    IN NotifyListeners(c1, a)

\* The function createAsyncOperationRunner(asyncStoreObj, derivedFn)
\* returns, up to the call derivedFn(inputValue); its then and catch
\* callbacks are AsyncFulfilled and AsyncRejected
runAsyncOperation(c, a, inputValue) ==
  IF c.stores[a].isRunning THEN c
  ELSE
    LET v == LoadingValue(c.used)
        c1 == [c EXCEPT !.stores[a].isRunning = TRUE,
                        !.stores[a].value = v,
                        !.used = @ \cup {v.id},
                        !.started = Append(@, Promise("run", a, NoHandle,
                                                      c.stores[a].asyncFn,
                                                      inputValue))]
    IN NotifyListeners(c1, a)

\* asyncStoreObj.getter(get) as derive overrides it, get a simple get
asyncGetter(c, a) ==
  LET currentInputValue == c.stores[getState(c.stores[a].getter.x)].value
      c1 == IF ObjectIs(currentInputValue, c.stores[a].lastInputValue) THEN c
            ELSE runAsyncOperation(
                   [c EXCEPT !.stores[a].lastInputValue = currentInputValue],
                   a, currentInputValue)
  IN [c1 EXCEPT !.ret = c1.stores[a].value]

RECURSIVE computeDerivedValueV2(_, _, _)
RECURSIVE notifyDependentStores(_, _, _)

\* computeDerivedValue(derivedStoreObj, get), get a simple get, called
\* because of `cause` (a store that changed, or 0 for get())
computeDerivedValueV2(c, d, cause) ==
  LET isAsync == c.stores[d].isAsync
      r == RunGetter(c.stores[d].getter, c.stores, c.used)
      threw == ~isAsync /\ r.threw
      g == IF isAsync THEN asyncGetter(c, d)
           ELSE [c EXCEPT !.used = r.used, !.ret = r.val,
                          !.stores[d].lastRead = SeqToSet(r.reads)]
      newValue == g.ret
      Log(res) == Append(g.trace, Recompute(d, cause, res))
  IN IF threw
     THEN [c EXCEPT !.trace = Append(c.trace, Recompute(d, cause, "threw")),
                    !.stores[d].lastRead = SeqToSet(r.reads),
                    !.ret = c.stores[d].lastComputedValue]
     ELSE IF ObjectIs(newValue, g.stores[d].lastComputedValue)
     THEN [g EXCEPT !.trace = Log("same")]
     ELSE
       LET c1 == [g EXCEPT !.stores[d].value = newValue,
                           !.stores[d].lastComputedValue = newValue,
                           !.trace = Log("changed")]
           c2 == NotifyListeners(c1, d)
           c3 == notifyDependentStores(c2, dependencyMap[d], d)
       IN [c3 EXCEPT !.ret = newValue]

\* notifyDependentStores(storeObj, get): only the dependents that are not
\* async are recomputed
notifyDependentStores(c, deps, cause) ==
  IF deps = <<>> THEN c
  ELSE notifyDependentStores(
         IF c.stores[Head(deps)].isAsync THEN c
         ELSE computeDerivedValueV2(c, Head(deps), cause),
         Tail(deps), cause)

\* The forEach over the dependents in createSetState: the getter of an
\* async dependent is run with a simple get; for any other dependent the
\* call's argument simpleGet is not in scope, its evaluation throws a
\* ReferenceError and the forEach ends
RECURSIVE triggerDependents(_, _, _)
triggerDependents(c, deps, cause) ==
  IF deps = <<>> THEN c
  ELSE IF c.stores[Head(deps)].isAsync
  THEN triggerDependents(asyncGetter(c, Head(deps)), Tail(deps), cause)
  ELSE [c EXCEPT !.error = ReferenceError]

\* createSetState(state, path)(v) for a value v that is already built
writeValueV2(c, s, path, v) ==
  LET currentValue == CurrentValue(c.stores, s, path)
      u1 == c.used \cup Ids(v)
  IN IF ObjectIs(v, currentValue) THEN c
     ELSE
       LET w == IF path = <<>> THEN [v |-> v, used |-> u1]
                ELSE setValueAtPath(c.stores[s].value, path, v, u1)
           c1 == [c EXCEPT !.stores[s].value = w.v, !.used = w.used]
           c2 == NotifyListeners(c1, s)
       IN triggerDependents(c2, dependencyMap[s], s)

\* createSetState(state, path)(nextValueOrUpdater)
createSetStateV2(c, s, path, arg) ==
  writeValueV2(c, s, path,
               NextValue(arg, CurrentValue(c.stores, s, path), c.used))

\* The store object createDerivedStore(getter) builds
createDerivedStoreV2(getter, st, used) ==
  LET r == RunGetter(getter, st, used)
  IN [obj |-> StoreObj(IF r.threw THEN Undef ELSE r.val, TRUE, getter,
                       SeqToSet(r.reads), IF r.threw THEN Undef ELSE r.val),
      reads |-> r.reads]

\* The functions given to derive: one of the kinds of a getter of one
\* store, applied to the value, or an async function
SyncFn(k) == [k |-> "sync", n |-> k]
AsyncFn(n) == [k |-> "async", n |-> n]
IsAsyncFn(f) == f.k = "async"

\* dependencyMap.get(sourceStore).add(targetStore)
setupDependencyTracking(dm, source, target) ==
  [dm EXCEPT ![source] = IF target \in SeqToSet(@) THEN @ ELSE Append(@, target)]

\* handle.derive(derivedFn)
Derive(h, f) ==
  LET s == Len(stores) + 1
      b == getState(h)
      p == createStoreProxy(proxies, Append(proxyCache, <<>>), s, <<>>)
      testValue == stores[b].value
  IN IF IsAsyncFn(f)
     THEN
       LET obj == [createAsyncStoreObject(f.n, h, LiveIds)
                     EXCEPT !.lastInputValue = testValue]
           c0 == [Ctx(Append(stores, obj), LiveIds \cup Ids(obj.value))
                    EXCEPT !.started = <<Promise("test", s, h, f.n, testValue)>>]
           c == runAsyncOperation(c0, s, testValue)
       IN /\ stores' = c.stores
          /\ dependencyMap' =
               setupDependencyTracking(Append(dependencyMap, <<>>), b, s)
          /\ promises' = promises \o c.started
          /\ proxies' = p.proxies
          /\ proxyCache' = p.proxyCache
          /\ lastOp' = [OpRecord("derive", h, NoArg, FALSE, c)
                          EXCEPT !.prop = f.n, !.handle = p.h]
          /\ UNCHANGED observers
     ELSE
       LET g == Getter(f.n, h, NoHandle)
           test == RunGetter(g, stores, LiveIds)
           d == createDerivedStoreV2(g, stores, LiveIds)
       IN IF test.threw
          THEN /\ lastOp' = [OpRecord("derive", h, NoArg, TRUE, Ctx(stores, {}))
                               EXCEPT !.prop = f.n, !.error = "derivedFn"]
               /\ UNCHANGED <<stores, dependencyMap, promises, proxies,
                              proxyCache, observers>>
          ELSE /\ stores' = Append(stores, d.obj)
               /\ dependencyMap' =
                    setupDependencyTracking(
                      AddDependent(Append(dependencyMap, <<>>), d.reads, s),
                      b, s)
               /\ proxies' = p.proxies
               /\ proxyCache' = p.proxyCache
               /\ lastOp' = [OpRecord("derive", h, NoArg, FALSE, Ctx(stores, {}))
                               EXCEPT !.prop = f.n, !.handle = p.h]
               /\ UNCHANGED <<promises, observers>>

\* The operation that ran in context c, with what it threw
OpRecordV2(op, h, arg, c) ==
  [OpRecord(op, h, arg, c.error # "", c) EXCEPT !.error = c.error]

\* handle.set(data)
SetV2(h, arg) ==
  /\ LET s == getState(h)
     IN IF stores[s].isDerived
        THEN /\ lastOp' = [OpRecord("set", h, arg, TRUE, Ctx(stores, {}))
                             EXCEPT !.error = ReadOnlyError]
             /\ UNCHANGED <<stores, observers, promises>>
        ELSE LET c == createSetStateV2(Ctx(stores, LiveIds), s, h.path, arg)
             IN /\ stores' = c.stores
                /\ observers' = Rerender(c)
                /\ promises' = promises \o c.started
                /\ lastOp' = OpRecordV2("set", h, arg, c)
  /\ UNCHANGED <<dependencyMap, proxies, proxyCache>>

\* handle.get()
GetV2(h) ==
  /\ LET s == getState(h)
     IN IF stores[s].isDerived
        THEN LET c == computeDerivedValueV2(Ctx(stores, LiveIds), s, 0)
             IN /\ stores' = c.stores
                /\ observers' = Rerender(c)
                /\ promises' = promises \o c.started
                /\ lastOp' = OpRecordV2("get", h, NoArg, c)
        ELSE /\ lastOp' = OpRecord("get", h, NoArg, FALSE,
                            [Ctx(stores, {}) EXCEPT !.ret = proxyGet(stores, h)])
             /\ UNCHANGED <<stores, observers, promises>>
  /\ UNCHANGED <<dependencyMap, proxies, proxyCache>>

\* handle.async(asyncFn) on a handle of a store that is not derived
AsyncV2(h, fn) ==
  /\ ~stores[getState(h)].isDerived
  /\ promises' = Append(promises, Promise("load", getState(h), h, fn, Undef))
  /\ lastOp' = [OpRecord("async", h, NoArg, FALSE, Ctx(stores, {}))
                  EXCEPT !.prop = fn, !.handle = h]
  /\ UNCHANGED <<stores, dependencyMap, proxies, proxyCache, observers>>

\* { error: true, message, status } without the defaults
AsyncError_NoDefaults(o, used) ==
  Obj(Fresh(used), [EmptyFields EXCEPT !["error"] = Bool(TRUE),
                                       !["message"] = o.message,
                                       !["status"] = o.status])

\* The value of an async derived store whose computation rejected
AsyncError(o, used) ==
  Obj(Fresh(used), [EmptyFields EXCEPT !["error"] = Bool(TRUE),
                                       !["message"] = ErrorMessage(o),
                                       !["status"] = ErrorStatus(o)])

\* The then callback of runAsyncOperation that clears the running guard
\* and discards the result
AsyncFulfilled_Discard(c, a, result) ==
  NotifyListeners([c EXCEPT !.stores[a].isRunning = FALSE], a)

\* The then callback of runAsyncOperation that recomputes no dependent
AsyncFulfilled_NoCascade(c, a, result) ==
  LET c1 == [c EXCEPT !.stores[a].value = result,
                      !.stores[a].lastComputedValue = result,
                      !.stores[a].isRunning = FALSE,
                      !.used = @ \cup Ids(result)]
  IN NotifyListeners(c1, a)

\* The then callback of runAsyncOperation, and its catch callback with the
\* error object as result
AsyncFulfilled(c, a, result) ==
  LET c1 == [c EXCEPT !.stores[a].value = result,
                      !.stores[a].lastComputedValue = result,
                      !.stores[a].isRunning = FALSE,
                      !.used = @ \cup Ids(result)]
      c2 == NotifyListeners(c1, a)
  IN notifyDependentStores(c2, dependencyMap[a], a)

\* The outcome the catch callback of handle.async is given when its then
\* callback threw the ReferenceError of createSetState
ThenThrew(used) ==
  [ok |-> FALSE, val |-> Undef, message |-> Str("simpleGet is not defined"),
   status |-> Undef, used |-> used]

\* The root handle store() or derive returned for store s
Root(s) == proxyCache[s][""]

\* The name of the operation in which a promise of a kind settles
SettleOp(kind) ==
  CASE kind = "test" -> "settleTest"
    [] kind = "run" -> "settleRun"
    [] kind = "load" -> "settleLoad"

\* The i-th pending invocation settles and its callbacks run.  The promise
\* of derive's test call has no callback.
SettleV2(i) ==
  /\ LET p == promises[i]
         o == AsyncOutcome(p.fn, p.input, LiveIds)
         c0 == Ctx(stores, o.used)
         c == CASE p.kind = "test" -> c0
                [] p.kind = "run" ->
                     AsyncFulfilled(c0, p.s,
                                    IF o.ok THEN o.val ELSE AsyncError(o, o.used))
                [] p.kind = "load" ->
                     LET c1 == writeValueV2(c0, p.s, p.h.path, Settled(o, o.used))
                     IN IF o.ok /\ c1.error # ""
                        THEN writeValueV2([c1 EXCEPT !.error = ""], p.s, p.h.path,
                                          LoadError(ThenThrew(c1.used), c1.used))
                        ELSE c1
     IN /\ stores' = c.stores
        /\ observers' = Rerender(c)
        /\ promises' = Without(promises, i) \o c.started
        /\ lastOp' = [OpRecord(SettleOp(p.kind),
                                 IF p.kind = "load" THEN p.h ELSE Root(p.s),
                                 NoArg, FALSE, c)
                        EXCEPT !.prop = p.fn, !.hit = o.ok, !.error = c.error]
  /\ UNCHANGED <<dependencyMap, proxies, proxyCache>>

---------------------------------------------------------------------------
(* The status predicates.  A call returns a value or throws.               *)

Returned(v) == [threw |-> FALSE, val |-> v]
Thrown == [threw |-> TRUE, val |-> Undef]

\* typeof data === 'object', which holds of null too
TypeofObject(data) == IsObj(data) \/ data = Null

\* typeof data === 'string' && data.includes('loading'), for the strings of
\* the model
IncludesLoading(data) == data = Str("loading")

\* isError, isSuccess, isLoading of src/index.js
isError(data) ==
  IF ~Truthy(data) THEN Returned(data)
  ELSE Returned(Bool(IsObj(data) /\ data.f["error"] = Bool(TRUE)))

isSuccess(data) ==
  IF ~Truthy(data) THEN Returned(data)
  ELSE Returned(Bool(~Truthy(isError(data).val)))

isLoading(data) == Returned(Bool(IncludesLoading(data)))

\* isError, isSuccess, isLoading of the library with async derived stores:
\* data.error and data.loading are read of every data with typeof 'object',
\* and reading a property of null throws a TypeError
isErrorV2(data) ==
  IF ~TypeofObject(data) THEN Returned(Bool(FALSE))
  ELSE IF data = Null THEN Thrown
  ELSE Returned(Bool(data.f["error"] = Bool(TRUE)))

isLoadingV2(data) ==
  IF ~TypeofObject(data) THEN Returned(Bool(FALSE))
  ELSE IF data = Null THEN Thrown
  ELSE Returned(Bool(data.f["loading"] = Bool(TRUE)))

isSuccessV2(data) ==
  IF ~Truthy(data) THEN Returned(data)
  ELSE IF isErrorV2(data).val = Bool(TRUE) THEN Returned(Bool(FALSE))
  ELSE Returned(Bool(isLoadingV2(data).val = Bool(FALSE)))

---------------------------------------------------------------------------
(* Programs.  A program creates its stores when it loads, before any       *)
(* component mounts and before any value is set; then it uses them.        *)

NoOp == OpRecord("init", NoHandle, NoArg, FALSE, Ctx(<<>>, {}))

Init ==
  /\ stores = <<>>
  /\ dependencyMap = <<>>
  /\ proxies = {}
  /\ proxyCache = <<>>
  /\ observers = <<>>
  /\ lastOp = NoOp
  /\ steps = 0
  /\ promises = <<>>
  /\ subscriptions = <<>>
  /\ storage = [type \in StorageTypes |-> [key \in StorageKeys |-> NoItem]]
  /\ savers = <<>>
  /\ timers = [next |-> 1, pending |-> {}, saves |-> 0]

Loading == lastOp.op \in {"init", "store", "derive", "mount"}

RootHandles == {Root(s) : s \in DOMAIN stores}

Args == {Lit(n) : n \in Lits} \cup {Fn(n) : n \in Updaters}

(* Chains: a store B and derived stores D1 = f1(B), D2 = f2(D1), ... *)

ChainLits == {"undef", "zero", "one", "two"}
ChainArgs == {Lit(n) : n \in ChainLits} \cup {Fn("same"), Fn("flip")}

ChainBase ==
  /\ Loading /\ stores = <<>>
  /\ \E lit \in {"zero", "two"} : Store(lit)
  /\ UNCHANGED <<steps, promises>>
  /\ UNCHANGED env

ChainDerived ==
  /\ Loading /\ stores # <<>> /\ Len(stores) < MaxChain
  /\ \E k \in UnaryKinds : StoreDerived(Getter(k, Root(Len(stores)), NoHandle))
  /\ UNCHANGED <<steps, promises>>
  /\ UNCHANGED env

ChainSet ==
  /\ stores # <<>>
  /\ \E arg \in ChainArgs : Set(Root(1), arg)
  /\ UNCHANGED <<steps, promises>>
  /\ UNCHANGED env

ChainGet ==
  /\ \E h \in RootHandles : stores[getState(h)].isDerived /\ Get(h)
  /\ UNCHANGED <<steps, promises>>
  /\ UNCHANGED env

Next == ChainBase \/ ChainDerived \/ ChainSet \/ ChainGet

Spec == Init /\ [][Next]_vars

(* Dependency graphs: stores, derived stores over any of them, and        *)
(* components observing them                                              *)

GraphKinds == {"pickA", "pos", "guard"}

GraphGetters ==
  {Getter(k, x, NoHandle) : k \in GraphKinds, x \in RootHandles}
  \cup {Getter("cond", p[1], p[2]) :
          p \in {q \in RootHandles \X RootHandles : q[1] # q[2]}}

GraphBase ==
  /\ Loading /\ Len(stores) < MaxGraph
  /\ Cardinality({s \in DOMAIN stores : ~stores[s].isDerived}) < MaxBases
  /\ \E lit \in {"zero", "two"} : Store(lit)
  /\ UNCHANGED <<steps, promises>>
  /\ UNCHANGED env

GraphDerived ==
  /\ Loading /\ Len(stores) < MaxGraph
  /\ \E g \in GraphGetters : StoreDerived(g)
  /\ UNCHANGED <<steps, promises>>
  /\ UNCHANGED env

GraphMount ==
  /\ Len(observers) < MaxObservers
  /\ \E h \in RootHandles : Mount(h)
  /\ UNCHANGED <<steps, promises>>
  /\ UNCHANGED env

GraphArgs ==
  {Lit(n) : n \in {"zero", "one", "two", "objA"}} \cup {Fn("same"), Fn("spread")}

GraphSet ==
  /\ \E h \in RootHandles, arg \in GraphArgs :
       ~stores[getState(h)].isDerived /\ Set(h, arg)
  /\ UNCHANGED <<steps, promises>>
  /\ UNCHANGED env

GraphGet ==
  /\ \E h \in RootHandles : stores[getState(h)].isDerived /\ Get(h)
  /\ UNCHANGED <<steps, promises>>
  /\ UNCHANGED env

NextGraph == GraphBase \/ GraphDerived \/ GraphMount \/ GraphSet \/ GraphGet

SpecGraph == Init /\ [][NextGraph]_vars

(* Paths: a store of a nested object, a derived store reading its part a, *)
(* the handles of its paths and components using them                     *)

PathArgs ==
  {Lit(n) : n \in {"zero", "one", "objB"}} \cup {Fn("same"), Fn("spread")}

\* The program loads: const S = store(lit), and takes the handle of every
\* path of S (S.a, S.b, S.a.a, ...), parents first
PathsOfLen(n) == [1..n -> Keys]
AllPaths == UNION {PathsOfLen(n) : n \in 1..MaxPathLen}

RECURSIVE TakeHandles(_, _, _)
TakeHandles(px, cache, paths) ==
  IF paths = {} THEN [proxies |-> px, proxyCache |-> cache]
  ELSE LET path == CHOOSE q \in paths : \A r \in paths : Len(q) <= Len(r)
           parent == cache[1][Join(SubSeq(path, 1, Len(path) - 1))]
           p == createStoreProxy(px, cache, getState(parent),
                                 Append(parent.path, path[Len(path)]))
       IN TakeHandles(p.proxies, p.proxyCache, paths \ {path})

PathBase ==
  /\ stores = <<>>
  /\ \E lit \in {"zero", "objA", "tree"} :
       LET v == LitValue(lit, LiveIds)
           p == createStoreProxy(proxies, <<<<>>>>, 1, <<>>)
           t == TakeHandles(p.proxies, p.proxyCache, AllPaths)
       IN /\ stores' = <<StoreObj(v, FALSE, NoGetter, {}, Undef)>>
          /\ dependencyMap' = <<<<>>>>
          /\ proxies' = t.proxies
          /\ proxyCache' = t.proxyCache
          /\ lastOp' = [OpRecord("store", NoHandle, Lit(lit), FALSE,
                                 Ctx(stores, {})) EXCEPT !.handle = p.h]
  /\ UNCHANGED <<observers, steps, promises>>
  /\ UNCHANGED env

PathDerived ==
  /\ Loading /\ Len(stores) = 1
  /\ StoreDerived(Getter("pickA", Root(1), NoHandle))
  /\ UNCHANGED <<steps, promises>>
  /\ UNCHANGED env

PathMount ==
  /\ Loading /\ stores # <<>>
  /\ Len(observers) < MaxPathObservers
  /\ \E h \in proxies : Mount(h)
  /\ UNCHANGED <<steps, promises>>
  /\ UNCHANGED env

PathSet ==
  /\ steps < MaxOps
  /\ \E h \in proxies, arg \in PathArgs :
       ~stores[getState(h)].isDerived /\ Set(h, arg)
  /\ steps' = steps + 1
  /\ UNCHANGED promises
  /\ UNCHANGED env

PathHookSet ==
  /\ steps < MaxOps
  /\ \E o \in DOMAIN observers, arg \in PathArgs :
       ~stores[getState(observers[o].h)].isDerived /\ HookSet(o, arg)
  /\ steps' = steps + 1
  /\ UNCHANGED promises
  /\ UNCHANGED env

PathGet ==
  /\ \E h \in proxies : stores[getState(h)].isDerived /\ Get(h)
  /\ UNCHANGED <<steps, promises>>
  /\ UNCHANGED env

NextPath ==
  \/ PathBase \/ PathDerived \/ PathMount
  \/ PathSet \/ PathHookSet \/ PathGet

SpecPath == Init /\ [][NextPath]_vars

(* Handles: stores whose handles are taken by property access, in any     *)
(* order and any number of times, between writes                          *)

HandleStore ==
  /\ lastOp.op \in {"init", "store"} /\ Len(stores) < MaxBases
  /\ Store("objA")
  /\ UNCHANGED <<steps, promises>>
  /\ UNCHANGED env

HandleAccess ==
  /\ \E h \in proxies, prop \in Keys :
       Len(h.path) < MaxPathLen /\ Access(h, prop)
  /\ UNCHANGED <<steps, promises>>
  /\ UNCHANGED env

HandleArgs == {Lit("one")}

\* The program writes through the handle it has just obtained
HandleSet ==
  /\ steps < MaxOps
  /\ lastOp.op \in {"store", "access"} /\ ~lastOp.threw
  /\ \E arg \in HandleArgs : Set(lastOp.handle, arg)
  /\ steps' = steps + 1
  /\ UNCHANGED promises
  /\ UNCHANGED env

NextHandle == HandleStore \/ HandleAccess \/ HandleSet

SpecHandle == Init /\ [][NextHandle]_vars

(* Loads: the store of the paths program, its derived store and its        *)
(* component, with handle.async calls that settle at any later time       *)

LoadFns == {"one", "obj", "fail"}
LoadArgs == {Lit("one"), Fn("spread")}

LoadAsync ==
  /\ steps < MaxOps
  /\ \E h \in proxies, fn \in LoadFns : Len(h.path) < MaxPathLen /\ Async(h, fn)
  /\ steps' = steps + 1
  /\ UNCHANGED env

LoadSet ==
  /\ steps < MaxOps
  /\ \E h \in proxies, arg \in LoadArgs :
       /\ ~stores[getState(h)].isDerived /\ Len(h.path) < MaxPathLen
       /\ Set(h, arg)
  /\ steps' = steps + 1
  /\ UNCHANGED promises
  /\ UNCHANGED env

LoadSettle ==
  /\ \E i \in DOMAIN promises : Settle(i)
  /\ UNCHANGED steps
  /\ UNCHANGED env

NextLoad ==
  \/ PathBase \/ PathDerived \/ PathMount
  \/ LoadAsync \/ LoadSet \/ LoadSettle

SpecLoad == Init /\ [][NextLoad]_vars

(* Read-only stores: a store, derived stores over it, components using    *)
(* any of them, and every setter the program can obtain                   *)

ReadOnlyKinds == {"id", "pos", "guard"}
ReadOnlyArgs == {Lit(n) : n \in {"zero", "one", "two"}} \cup {Fn("same"), Fn("flip")}

ReadOnlyBase ==
  /\ stores = <<>>
  /\ \E lit \in {"zero", "two"} : Store(lit)
  /\ UNCHANGED <<steps, promises>>
  /\ UNCHANGED env

ReadOnlyDerived ==
  /\ Loading /\ stores # <<>> /\ Len(stores) < MaxGraph
  /\ \E k \in ReadOnlyKinds, x \in RootHandles :
       StoreDerived(Getter(k, x, NoHandle))
  /\ UNCHANGED <<steps, promises>>
  /\ UNCHANGED env

ReadOnlyMount ==
  /\ Len(observers) < MaxObservers
  /\ \E h \in RootHandles : Mount(h)
  /\ UNCHANGED <<steps, promises>>
  /\ UNCHANGED env

ReadOnlySet ==
  /\ \E h \in RootHandles, arg \in ReadOnlyArgs : Set(h, arg)
  /\ UNCHANGED <<steps, promises>>
  /\ UNCHANGED env

ReadOnlyHookSet ==
  /\ \E o \in DOMAIN observers, arg \in ReadOnlyArgs : HookSet(o, arg)
  /\ UNCHANGED <<steps, promises>>
  /\ UNCHANGED env

ReadOnlyGet ==
  /\ \E h \in RootHandles : stores[getState(h)].isDerived /\ Get(h)
  /\ UNCHANGED <<steps, promises>>
  /\ UNCHANGED env

NextReadOnly ==
  \/ ReadOnlyBase \/ ReadOnlyDerived \/ ReadOnlyMount
  \/ ReadOnlySet \/ ReadOnlyHookSet \/ ReadOnlyGet

SpecReadOnly == Init /\ [][NextReadOnly]_vars

(* Async derived stores: a store, the stores derived from it and from one *)
(* another by derive, with functions that are async or not, a component,   *)
(* writes, reads and plain loads, and invocations that settle at any later *)
(* time                                                                    *)

MaxAsyncStores == 3   \* stores of a program with async derived stores
MaxAsyncOps == 2      \* set, get and async calls of such a program

DeriveFns == {SyncFn("id"), AsyncFn("check")}

AsyncArgs == {Lit(n) : n \in {"one", "two"}}

AsyncBase ==
  /\ stores = <<>>
  /\ Store("zero")
  /\ UNCHANGED <<steps, promises>>
  /\ UNCHANGED env

AsyncDerive ==
  /\ Loading /\ stores # <<>> /\ Len(stores) < MaxAsyncStores
  /\ \E h \in RootHandles, f \in DeriveFns : Derive(h, f)
  /\ UNCHANGED steps
  /\ UNCHANGED env

AsyncMount ==
  /\ Loading /\ stores # <<>> /\ Len(observers) < MaxObservers
  /\ \E h \in RootHandles : Mount(h)
  /\ UNCHANGED <<steps, promises>>
  /\ UNCHANGED env

AsyncSet ==
  /\ steps < MaxAsyncOps
  /\ \E h \in RootHandles, arg \in AsyncArgs : SetV2(h, arg)
  /\ steps' = steps + 1
  /\ UNCHANGED env

AsyncGet ==
  /\ steps < MaxAsyncOps
  /\ \E h \in RootHandles : stores[getState(h)].isDerived /\ GetV2(h)
  /\ steps' = steps + 1
  /\ UNCHANGED env

AsyncLoad ==
  /\ steps < MaxAsyncOps /\ stores # <<>>
  /\ \E fn \in {"one", "fail"} : AsyncV2(Root(1), fn)
  /\ steps' = steps + 1
  /\ UNCHANGED env

AsyncSettle ==
  /\ \E i \in DOMAIN promises : SettleV2(i)
  /\ UNCHANGED steps
  /\ UNCHANGED env

NextAsync ==
  \/ AsyncBase \/ AsyncDerive \/ AsyncMount
  \/ AsyncSet \/ AsyncGet \/ AsyncLoad \/ AsyncSettle

SpecAsync == Init /\ [][NextAsync]_vars

(* Property access: a store, the handles property access gives for data   *)
(* keys and for the key 'value', and reads and writes through them        *)

AccessProps == Keys \cup {"value"}
AccessArgs == {Lit("one"), Lit("objA")}

AccessStore ==
  /\ stores = <<>>
  /\ \E lit \in {"zero", "objA", "tree"} : Store(lit)
  /\ UNCHANGED <<steps, promises>>
  /\ UNCHANGED env

AccessProp ==
  /\ \E h \in proxies, prop \in AccessProps :
       Len(h.path) < MaxPathLen /\ Access(h, prop)
  /\ UNCHANGED <<steps, promises>>
  /\ UNCHANGED env

AccessSet ==
  /\ steps < MaxOps
  /\ \E h \in proxies, arg \in AccessArgs : Set(h, arg)
  /\ steps' = steps + 1
  /\ UNCHANGED promises
  /\ UNCHANGED env

AccessGet ==
  /\ \E h \in proxies : Get(h)
  /\ UNCHANGED <<steps, promises>>
  /\ UNCHANGED env

NextAccess == AccessStore \/ AccessProp \/ AccessSet \/ AccessGet

SpecAccess == Init /\ [][NextAccess]_vars

(* Persisted stores: JSON text, the storage backends, the save listener   *)
(* and its timer                                                           *)

\* A string of the backend, as the sequence of its lexical tokens: a
\* primitive value stands for its literal, Undef for the word undefined
Text(ts) == [t |-> "text", s |-> ts]
Punct(c) == [t |-> "punct", c |-> c]
Key(k) == [t |-> "key", k |-> k]

\* The order JSON.stringify writes the properties of an object in
FieldOrder ==
  <<"a", "b", "loading", "error", "message", "status", "originalError">>

RECURSIVE StringifyValue(_)
RECURSIVE StringifyFields(_, _)

\* The text of a value that is not undefined
StringifyValue(v) ==
  IF IsObj(v)
  THEN <<Punct("{")>> \o StringifyFields(v.f, 1) \o <<Punct("}")>>
  ELSE <<v>>

\* The properties of an object; one whose value is undefined is left out
StringifyFields(fs, i) ==
  IF i > Len(FieldOrder) THEN <<>>
  ELSE LET k == FieldOrder[i]
       IN (IF fs[k] = Undef THEN <<>> ELSE <<Key(k)>> \o StringifyValue(fs[k]))
          \o StringifyFields(fs, i + 1)

\* JSON.stringify(value): undefined for undefined, else the text
JSONstringify(v) == IF v = Undef THEN Undef ELSE Text(StringifyValue(v))

\* String(x), which storage.setItem applies to the value it is given
StringOf(x) == IF x = Undef THEN Text(<<Undef>>) ELSE x

RECURSIVE ParseValue(_, _, _)
RECURSIVE ParseFields(_, _, _, _)

\* A JSON value at position i of the tokens: [ok, val, next, used]
ParseValue(ts, i, used) ==
  IF i > Len(ts) THEN [ok |-> FALSE, val |-> Undef, next |-> i, used |-> used]
  ELSE IF ts[i].t \in {"null", "num", "bool", "str"}
  THEN [ok |-> TRUE, val |-> ts[i], next |-> i + 1, used |-> used]
  ELSE IF ts[i] = Punct("{")
  THEN ParseFields(ts, i + 1, EmptyFields, used)
  ELSE [ok |-> FALSE, val |-> Undef, next |-> i, used |-> used]

\* The properties of an object up to its closing brace; the object is new
ParseFields(ts, i, fs, used) ==
  IF i > Len(ts) THEN [ok |-> FALSE, val |-> Undef, next |-> i, used |-> used]
  ELSE IF ts[i] = Punct("}")
  THEN [ok |-> TRUE, val |-> Obj(Fresh(used), fs), next |-> i + 1,
        used |-> used \cup {Fresh(used)}]
  ELSE IF ts[i].t = "key"
  THEN LET r == ParseValue(ts, i + 1, used)
       IN IF r.ok THEN ParseFields(ts, r.next, [fs EXCEPT ![ts[i].k] = r.val],
                                   r.used)
          ELSE r
  ELSE [ok |-> FALSE, val |-> Undef, next |-> i, used |-> used]

\* JSON.parse(text): [threw, val, used]; a SyntaxError unless the whole
\* text is one JSON value
JSONparse(text, used) ==
  LET r == ParseValue(text.s, 1, used)
  IN IF r.ok /\ r.next = Len(text.s) + 1
     THEN [threw |-> FALSE, val |-> r.val, used |-> r.used]
     ELSE [threw |-> TRUE, val |-> Undef, used |-> used]

\* The truthiness of what storage.getItem returns: null and the empty
\* string are falsy
ItemTruthy(item) == item # NoItem /\ item.s # <<>>

\* getStoredValue with the item under the key treated as absent when the
\* value it parses to is falsy
getStoredValue_FalsyIsAbsent(item, initialValue, used) ==
  IF ItemTruthy(item)
  THEN LET r == JSONparse(item, used)
       IN IF r.threw \/ ~Truthy(r.val)
          THEN [val |-> initialValue, used |-> used]
          ELSE [val |-> r.val, used |-> r.used]
  ELSE [val |-> initialValue, used |-> used]

\* try { const item = storage.getItem(key)
\*       return item ? JSON.parse(item) : initialValue }
\* catch { return initialValue }
getStoredValue(item, initialValue, used) ==
  IF ItemTruthy(item)
  THEN LET r == JSONparse(item, used)
       IN IF r.threw THEN [val |-> initialValue, used |-> used]
          ELSE [val |-> r.val, used |-> r.used]
  ELSE [val |-> initialValue, used |-> used]

\* The listener createStorageStore adds to its store
SaveListener == 0

\* let saveTimeout: undefined
NoTimer == 0

\* createStorageStore(storageType, key, initialValue): the store object
\* with the save listener, and what the closure of the listener holds;
\* source records the store whose handle local/session was called on
createStorageStore(storageType, key, initialValue, source, used) ==
  LET v == getStoredValue(storage[storageType][key], initialValue, used)
  IN [storeObj |-> [StoreObj(v.val, FALSE, NoGetter, {}, Undef)
                      EXCEPT !.listeners = <<SaveListener>>],
      saver |-> [type |-> storageType, key |-> key, saveTimeout |-> NoTimer,
                 source |-> source]]

\* local/session persisting the store of the handle itself instead of a
\* new store
Persist_SameStore(h, type, key) ==
  /\ LET src == getState(h)
     IN /\ stores' = [stores EXCEPT ![src].listeners =
                        IF SaveListener \in SeqToSet(@) THEN @
                        ELSE Append(@, SaveListener)]
        /\ savers' = IF src \in DOMAIN savers THEN savers
                     ELSE savers @@ (src :> [type |-> type, key |-> key,
                                             saveTimeout |-> NoTimer,
                                             source |-> src])
        /\ lastOp' = [OpRecord(type, h, NoArg, FALSE, Ctx(stores, {}))
                        EXCEPT !.prop = key, !.handle = Root(src)]
  /\ UNCHANGED <<dependencyMap, proxies, proxyCache, observers, storage, timers>>

\* handle.local(key) and handle.session(key):
\*   createStorageStore(type, key, the current value at the handle's path)
Persist(h, type, key) ==
  /\ LET src == getState(h)
         currentValue == IF Len(h.path) > 0
                         THEN getValueAtPath(stores[src].value, h.path)
                         ELSE stores[src].value
         n == createStorageStore(type, key, currentValue, src, LiveIds)
         s == Len(stores) + 1
         p == createStoreProxy(proxies, Append(proxyCache, <<>>), s, <<>>)
     IN /\ stores' = Append(stores, n.storeObj)
        /\ dependencyMap' = Append(dependencyMap, <<>>)
        /\ proxies' = p.proxies
        /\ proxyCache' = p.proxyCache
        /\ savers' = savers @@ (s :> n.saver)
        /\ lastOp' = [OpRecord(type, h, NoArg, FALSE, Ctx(stores, {}))
                        EXCEPT !.prop = key, !.handle = p.h]
  /\ UNCHANGED <<observers, storage, timers>>

RECURSIVE RunSaveListeners_NoClear(_, _, _)
\* The save listeners with clearTimeout(saveTimeout) left out
RunSaveListeners_NoClear(tr, sv, tm) ==
  IF tr = <<>> THEN [savers |-> sv, timers |-> tm]
  ELSE LET e == Head(tr)
       IN IF e.e = "fire" /\ e.o = SaveListener
          THEN RunSaveListeners_NoClear(
                 Tail(tr),
                 [sv EXCEPT ![e.s].saveTimeout = tm.next],
                 [tm EXCEPT !.next = @ + 1,
                            !.pending = @ \cup {[id |-> tm.next, s |-> e.s]}])
          ELSE RunSaveListeners_NoClear(Tail(tr), sv, tm)

RECURSIVE RunSaveListeners(_, _, _)
\* The save listeners an operation invoked, in the order of its trace:
\*   clearTimeout(saveTimeout); saveTimeout = setTimeout(save, 0)
RunSaveListeners(tr, sv, tm) ==
  IF tr = <<>> THEN [savers |-> sv, timers |-> tm]
  ELSE LET e == Head(tr)
       IN IF e.e = "fire" /\ e.o = SaveListener
          THEN RunSaveListeners(
                 Tail(tr),
                 [sv EXCEPT ![e.s].saveTimeout = tm.next],
                 [tm EXCEPT !.next = @ + 1,
                            !.pending =
                              {p \in @ : p.id # sv[e.s].saveTimeout}
                                \cup {[id |-> tm.next, s |-> e.s]}])
          ELSE RunSaveListeners(Tail(tr), sv, tm)

\* What the save listeners invoked by the operation do to their timers
Saved ==
  LET r == RunSaveListeners(lastOp'.trace, savers, timers)
  IN savers' = r.savers /\ timers' = r.timers

\* The callback of the timer: try { storage.setItem(key,
\*   JSON.stringify(storeObj.value)) } catch { console.error(...) };
\* saves counts the calls of setItem
TimerFire(id) ==
  /\ \E p \in timers.pending :
       /\ p.id = id
       /\ storage' = [storage EXCEPT ![savers[p.s].type][savers[p.s].key] =
                        StringOf(JSONstringify(stores[p.s].value))]
       /\ timers' = [timers EXCEPT !.pending = @ \ {p}, !.saves = @ + 1]
       /\ lastOp' = [OpRecord("timer", Root(p.s), NoArg, FALSE, Ctx(stores, {}))
                       EXCEPT !.prop = savers[p.s].key]
  /\ UNCHANGED <<stores, dependencyMap, proxies, proxyCache, observers, savers>>

(* Persistence: a backend that may hold an item from an earlier session, a *)
(* source store, stores persisted from it with local/session, writes and  *)
(* an async load, and the save timers                                      *)

MaxStorageStores == 3   \* the source store and the persisted stores

\* What an earlier session left under the key: the texts of null, 0 and
\* { a: 1 }, the empty string, the word undefined and a cut-off object
StoredTexts ==
  {StringOf(JSONstringify(v)) :
     v \in {Null, Num(0), Obj(1, [EmptyFields EXCEPT !["a"] = Num(1)])}}
  \cup {Text(<<>>), Text(<<Undef>>), Text(<<Punct("{")>>)}

StorageLits == {"null", "one", "objA"}
StorageArgs == {Lit(n) : n \in {"null", "two", "objB"}}

\* localStorage.setItem(key, text) before the program loads
StoragePreload ==
  /\ stores = <<>>
  /\ \A type \in StorageTypes, key \in StorageKeys :
       storage[type][key] = NoItem
  /\ \E type \in StorageTypes, key \in StorageKeys, text \in StoredTexts :
       /\ storage' = [storage EXCEPT ![type][key] = text]
  /\ UNCHANGED <<stores, dependencyMap, proxies, proxyCache, observers, lastOp,
                 steps, promises, subscriptions, savers, timers>>

StorageSource ==
  /\ stores = <<>>
  /\ \E lit \in StorageLits : Store(lit)
  /\ UNCHANGED <<steps, promises, env>>

StoragePersist ==
  /\ Len(stores) < MaxStorageStores
  /\ \E h \in RootHandles, type \in StorageTypes, key \in StorageKeys :
       Persist(h, type, key)
  /\ UNCHANGED <<steps, promises, subscriptions>>

StorageSet ==
  /\ steps < MaxOps
  /\ \E h \in RootHandles, arg \in StorageArgs : Set(h, arg)
  /\ Saved
  /\ steps' = steps + 1
  /\ UNCHANGED <<promises, subscriptions, storage>>

StorageAsync ==
  /\ steps < MaxOps
  /\ promises = <<>>
  /\ stores # <<>>
  /\ Async(Root(1), "one")
  /\ steps' = steps + 1
  /\ UNCHANGED env

StorageSettle ==
  /\ \E i \in DOMAIN promises : Settle(i)
  /\ Saved
  /\ UNCHANGED <<steps, subscriptions, storage>>

StorageTimer ==
  /\ \E p \in timers.pending : TimerFire(p.id)
  /\ UNCHANGED <<steps, promises, subscriptions>>

NextStorage ==
  \/ StoragePreload \/ StorageSource \/ StoragePersist \/ StorageSet
  \/ StorageAsync \/ StorageSettle \/ StorageTimer

SpecStorage == Init /\ [][NextStorage]_vars

(* Diamonds: a store, stores derived from it, stores derived from two of  *)
(* those, components mounted on any of them, and writes of the store       *)

MaxDiamond == 4       \* stores of the diamonds program

DiamondGetters ==
  {Getter(k, x, NoHandle) : k \in {"id", "pos"}, x \in RootHandles}
  \cup {Getter(k, p[1], p[2]) :
          k \in {"cond", "pair"},
          p \in {q \in RootHandles \X RootHandles :
                   /\ q[1] # q[2]
                   /\ stores[getState(q[1])].isDerived
                   /\ stores[getState(q[2])].isDerived}}

DiamondBase ==
  /\ stores = <<>>
  /\ Store("zero")
  /\ UNCHANGED <<steps, promises, env>>

DiamondDerived ==
  /\ Loading /\ stores # <<>> /\ Len(stores) < MaxDiamond
  /\ \E g \in DiamondGetters : StoreDerived(g)
  /\ UNCHANGED <<steps, promises, env>>

DiamondMount ==
  /\ stores # <<>> /\ Len(observers) < MaxObservers
  /\ \E h \in RootHandles : Mount(h)
  /\ UNCHANGED <<steps, promises, env>>

DiamondSet ==
  /\ stores # <<>>
  /\ \E n \in {"zero", "one", "two"} : Set(Root(1), Lit(n))
  /\ UNCHANGED <<steps, promises, env>>

NextDiamond == DiamondBase \/ DiamondDerived \/ DiamondMount \/ DiamondSet

SpecDiamond == Init /\ [][NextDiamond]_vars

(* Computing from handles of paths: a store of objects with the handles   *)
(* of its paths, stores computed from those handles with store(getter)     *)
(* and with derive, and reads                                              *)

MaxCompute == 3       \* stores of the program that computes from paths

ComputeBase ==
  /\ stores = <<>>
  /\ \E lit \in {"objA", "tree"} :
       LET v == LitValue(lit, LiveIds)
           p == createStoreProxy(proxies, <<<<>>>>, 1, <<>>)
           t == TakeHandles(p.proxies, p.proxyCache, AllPaths)
       IN /\ stores' = <<StoreObj(v, FALSE, NoGetter, {}, Undef)>>
          /\ dependencyMap' = <<<<>>>>
          /\ proxies' = t.proxies
          /\ proxyCache' = t.proxyCache
          /\ lastOp' = [OpRecord("store", NoHandle, Lit(lit), FALSE,
                                 Ctx(stores, {})) EXCEPT !.handle = p.h]
  /\ UNCHANGED <<observers, steps, promises, env>>

\* store(get => f(get(h)))
ComputeStore ==
  /\ stores # <<>> /\ Len(stores) < MaxCompute
  /\ \E k \in {"id", "pos"}, h \in proxies :
       ~stores[getState(h)].isDerived /\ StoreDerived(Getter(k, h, NoHandle))
  /\ UNCHANGED <<steps, promises, env>>

\* h.derive(f)
ComputeDerive ==
  /\ stores # <<>> /\ Len(stores) < MaxCompute
  /\ \E k \in {"id", "pos"}, h \in proxies :
       ~stores[getState(h)].isDerived /\ Derive(h, SyncFn(k))
  /\ UNCHANGED <<steps, env>>

ComputeGet ==
  /\ \E h \in RootHandles : stores[getState(h)].isDerived /\ GetV2(h)
  /\ UNCHANGED <<steps, env>>

NextCompute == ComputeBase \/ ComputeStore \/ ComputeDerive \/ ComputeGet

SpecCompute == Init /\ [][NextCompute]_vars

(* Property keys: a store and handles obtained through keys that hold a   *)
(* dot or are the empty string                                             *)

MaxKeyAccesses == 3   \* property accesses of the keys program

\* obj[''], obj.a, obj.b, obj['a.b']
PropertyKeys == {"", "a", "b", "a.b"}

KeysStore ==
  /\ stores = <<>>
  /\ Store("objA")
  /\ UNCHANGED <<steps, promises, env>>

KeysAccess ==
  /\ steps < MaxKeyAccesses
  /\ \E h \in proxies, prop \in PropertyKeys :
       Len(h.path) < MaxPathLen /\ Access(h, prop)
  /\ steps' = steps + 1
  /\ UNCHANGED <<promises, env>>

NextKeys == KeysStore \/ KeysAccess

SpecKeys == Init /\ [][NextKeys]_vars

(* Subscriptions: the subscribe function of a store, which useStore hands  *)
(* to useSyncExternalStore, called with callbacks                           *)

\* The callbacks passed to subscribe (function identities)
Callbacks == {-1, -2}

\* subscribe(callback): state.listeners.add(callback), listeners being a
\* Set; it returns the function that cancels the subscription
Subscribe(h, cb) ==
  /\ LET s == getState(h)
     IN /\ stores' = [stores EXCEPT ![s].listeners =
                        IF cb \in SeqToSet(@) THEN @ ELSE Append(@, cb)]
        /\ subscriptions' =
             Append(subscriptions, [s |-> s, cb |-> cb, cancelled |-> FALSE])
        /\ lastOp' = OpRecord("subscribe", h, NoArg, FALSE, Ctx(stores, {}))
  /\ UNCHANGED <<dependencyMap, proxies, proxyCache, observers>>

\* The function returned by the i-th call of subscribe:
\* state.listeners.delete(callback)
Unsubscribe(i) ==
  /\ LET sub == subscriptions[i]
     IN /\ stores' = [stores EXCEPT ![sub.s].listeners =
                        SelectSeq(@, LAMBDA l : l # sub.cb)]
        /\ subscriptions' = [subscriptions EXCEPT ![i].cancelled = TRUE]
        /\ lastOp' = OpRecord("unsubscribe", Root(sub.s), NoArg, FALSE,
                              Ctx(stores, {}))
  /\ UNCHANGED <<dependencyMap, proxies, proxyCache, observers>>

MaxSubscriptions == 3   \* calls of subscribe

SubscribeArgs == {Lit(n) : n \in {"zero", "one", "two"}}

SubscribeStore ==
  /\ stores = <<>>
  /\ Store("zero")
  /\ UNCHANGED <<steps, promises, env>>

SubscribeAdd ==
  /\ Len(subscriptions) < MaxSubscriptions
  /\ \E h \in RootHandles, cb \in Callbacks : Subscribe(h, cb)
  /\ UNCHANGED <<steps, promises, storage, savers, timers>>

SubscribeCancel ==
  /\ \E i \in DOMAIN subscriptions :
       ~subscriptions[i].cancelled /\ Unsubscribe(i)
  /\ UNCHANGED <<steps, promises, storage, savers, timers>>

SubscribeSet ==
  /\ steps < MaxOps
  /\ \E h \in RootHandles, arg \in SubscribeArgs : Set(h, arg)
  /\ steps' = steps + 1
  /\ UNCHANGED <<promises, env>>

NextSubscribe ==
  SubscribeStore \/ SubscribeAdd \/ SubscribeCancel \/ SubscribeSet

SpecSubscribe == Init /\ [][NextSubscribe]_vars

(* Notifications: a store, stores derived from it, components mounted on  *)
(* any of them at any time, and writes of the store                        *)

MaxListeners == 2     \* components of the notifications program

NotifyArgs == {Lit(n) : n \in {"zero", "one", "two"}} \cup {Fn("same")}

NotifyBase ==
  /\ stores = <<>>
  /\ Store("zero")
  /\ UNCHANGED <<steps, promises>>
  /\ UNCHANGED env

NotifyDerived ==
  /\ Loading /\ stores # <<>> /\ Len(stores) < MaxGraph
  /\ \E k \in {"id", "pos"}, x \in RootHandles :
       StoreDerived(Getter(k, x, NoHandle))
  /\ UNCHANGED <<steps, promises>>
  /\ UNCHANGED env

NotifyMount ==
  /\ stores # <<>> /\ Len(observers) < MaxListeners
  /\ \E h \in RootHandles : Mount(h)
  /\ UNCHANGED <<steps, promises>>
  /\ UNCHANGED env

NotifySet ==
  /\ stores # <<>>
  /\ \E arg \in NotifyArgs : Set(Root(1), arg)
  /\ UNCHANGED <<steps, promises>>
  /\ UNCHANGED env

NextNotify == NotifyBase \/ NotifyDerived \/ NotifyMount \/ NotifySet

SpecNotify == Init /\ [][NextNotify]_vars

---------------------------------------------------------------------------
(* Properties *)

\* Equality of values up to the identity of objects (Jest's toEqual)
RECURSIVE DeepEqual(_, _)
DeepEqual(x, y) ==
  IF IsObj(x) /\ IsObj(y) THEN \A k \in Fields : DeepEqual(x.f[k], y.f[k])
  ELSE x = y

Derived == {d \in DOMAIN stores : stores[d].isDerived}

\* C1: derived correctness.  After every operation (creation, set, get),
\* every derived store of a chain whose compute function does not throw on
\* the current value of its source holds that function's result, and get()
\* on it returns that result.
C1_DerivedCorrectness ==
  \A d \in Derived :
    ~GetterThrows(stores[d].getter, stores) =>
      /\ DeepEqual(stores[d].value, GetterValue(stores[d].getter, stores))
      /\ (lastOp.op = "get" /\ getState(lastOp.h) = d) =>
           DeepEqual(lastOp.ret, GetterValue(stores[d].getter, stores))

\* A set of the base has recomputed and changed all three derived stores
C1_Witness ==
  /\ lastOp.op = "set"
  /\ Len(stores) >= 4
  /\ Len(lastOp.trace) >= 3
  /\ \A i \in DOMAIN lastOp.trace : lastOp.trace[i].res = "changed"
  /\ \A d \in Derived : ~GetterThrows(stores[d].getter, stores)

Trace == lastOp.trace

\* Path p is a prefix of path q
IsPrefix(p, q) == Len(p) <= Len(q) /\ SubSeq(q, 1, Len(p)) = p

\* Neither path is a prefix of the other
Disjoint(p, q) == ~IsPrefix(p, q) /\ ~IsPrefix(q, p)

\* C2: no-op suppression.  When handle.set(arg) on a store that is not
\* derived resolves arg to a value Object.is the current value at the
\* handle's path, the store's root value stays the same reference, no store
\* changes, no listener is invoked, no derived store is recomputed and no
\* component renders again.
C2_NoOpSuppression ==
  [][(lastOp'.op = "set" /\ ~stores[getState(lastOp'.h)].isDerived) =>
       LET s == getState(lastOp'.h)
           cur == CurrentValue(stores, s, lastOp'.h.path)
           nxt == NextValue(lastOp'.arg, cur, LiveIds)
       IN ObjectIs(nxt, cur) =>
            /\ ObjectIs(stores'[s].value, stores[s].value)
            /\ stores' = stores
            /\ observers' = observers
            /\ lastOp'.trace = <<>>
            /\ lastOp'.marks = {}]_vars

\* An updater returned the object it was given, at a nested path of a store
\* that has a listener and a dependent
C2_Witness ==
  /\ lastOp.op = "set"
  /\ lastOp.arg = Fn("same")
  /\ lastOp.h.path # <<>>
  /\ IsObj(proxyGet(stores, lastOp.h))
  /\ stores[getState(lastOp.h)].listeners # <<>>
  /\ dependencyMap[getState(lastOp.h)] # <<>>
  /\ lastOp.trace = <<>>

\* C3: path isolation.  A write through a handle at path p1 leaves the
\* value read at every path p2 disjoint from p1 the same reference as
\* before the write.
C3_PathIsolation ==
  [][(lastOp'.op = "set" /\ ~lastOp'.threw) =>
       LET s == getState(lastOp'.h)
       IN \A p2 \in AllPaths :
            Disjoint(lastOp'.h.path, p2) =>
              ObjectIs(getValueAtPath(stores'[s].value, p2),
                       getValueAtPath(stores[s].value, p2))]_vars

\* C4: handle identity.  In every state, the handles obtained for the same
\* store and the same path are one object, and the cache holds it: a
\* property access that finds the path in the cache returns that object.
C4_HandleIdentity ==
  /\ \A h1 \in proxies, h2 \in proxies :
       (getState(h1) = getState(h2) /\ h1.path = h2.path) => h1 = h2
  /\ \A h \in proxies : proxyCache[getState(h)][Join(h.path)] = h
  /\ (lastOp.op = "access" /\ ~lastOp.threw) =>
       /\ lastOp.handle \in proxies
       /\ getState(lastOp.handle) = getState(lastOp.h)
       /\ lastOp.handle.path = Append(lastOp.h.path, lastOp.prop)

\* After two writes, a nested handle of the second store is obtained again
C4_Witness ==
  /\ lastOp.op = "access" /\ lastOp.hit
  /\ steps = MaxOps
  /\ getState(lastOp.handle) = 2
  /\ Len(lastOp.handle.path) = 2

\* C5: write/read round trip.  After handle.set(v) returns, for a handle at
\* any path of a store that is not derived and a value v that is not a
\* function, handle.get() returns v.
C5_WriteReadRoundTrip ==
  [][(/\ lastOp'.op = "set" /\ ~lastOp'.threw
      /\ ~IsUpdater(lastOp'.arg)) =>
       ObjectIs(proxyGet(stores', lastOp'.h),
                LitValue(lastOp'.arg.n, LiveIds))]_vars

\* C6: selective notification.  A write at path p1 does not render again a
\* component that observes a handle of the same store at a path disjoint
\* from p1: its snapshot stays the same reference; and a component that
\* does get a new snapshot observes a path whose value changed.
C6_SelectiveNotification ==
  [][(lastOp'.op = "set" /\ ~lastOp'.threw) =>
       \A o \in DOMAIN observers :
         getState(observers[o].h) = getState(lastOp'.h) =>
           /\ Disjoint(lastOp'.h.path, observers[o].h.path) =>
                /\ o \notin lastOp'.marks
                /\ ObjectIs(observers'[o].snap, observers[o].snap)
           /\ o \in lastOp'.marks =>
                ~ObjectIs(proxyGet(stores', observers[o].h),
                          proxyGet(stores, observers[o].h))]_vars

\* C7: per-handle UI binding.  The value useStore(h) gives a component is
\* h.get(), the value at h's path, and the setter it gives writes what
\* h.set writes.
C7_PerHandleBinding ==
  /\ [](\A o \in DOMAIN observers :
          ~stores[getState(observers[o].h)].isDerived =>
            ObjectIs(observers[o].snap, proxyGet(stores, observers[o].h)))
  /\ [][lastOp'.op = "hookset" =>
          stores' = createSetState(Ctx(stores, LiveIds), getState(lastOp'.h),
                                   lastOp'.h.path, lastOp'.arg).stores]_vars

\* The recomputations of derived store d in the last operation
RecomputesOf(d) ==
  {i \in DOMAIN Trace : Trace[i].e = "recompute" /\ Trace[i].s = d}

\* The recomputation at place i of the trace fired no listener of its store
\* and recomputed no dependent: the next event is neither
Quiet(i) ==
  (i + 1) \in DOMAIN Trace =>
    /\ ~(Trace[i + 1].e = "fire" /\ Trace[i + 1].s = Trace[i].s)
    /\ ~(Trace[i + 1].e = "recompute" /\ Trace[i + 1].cause = Trace[i].s)

\* Nothing in the last operation came from a change of store d
Silent(d) ==
  /\ \A i \in DOMAIN Trace :
       /\ ~(Trace[i].e = "fire" /\ Trace[i].s = d)
       /\ ~(Trace[i].e = "recompute" /\ Trace[i].cause = d)
  /\ \A o \in lastOp.marks : getState(observers[o].h) # d

\* C8: conditional dependencies.  A store that the latest run of a derived
\* store's compute function read is a dependency of it, and an effective
\* set of that store recomputes the derived store.
C8_ConditionalDependencies ==
  [][/\ \A d \in DOMAIN stores' :
          stores'[d].lastRead \subseteq stores'[d].dependencies
     /\ (lastOp'.op = "set" /\ ~lastOp'.threw) =>
          LET x == getState(lastOp'.h)
          IN ~ObjectIs(stores'[x].value, stores[x].value) =>
               \A d \in Derived :
                 x \in stores[d].lastRead =>
                   \E i \in DOMAIN lastOp'.trace :
                     /\ lastOp'.trace[i].e = "recompute"
                     /\ lastOp'.trace[i].s = d]_vars

\* C9: error degradation.  A recomputation that throws fires no listener
\* and recomputes no dependent; when every recomputation of a derived store
\* in a set or a get throws, its value and lastComputedValue are those from
\* before, the operation does not throw, and get() returns that value.
C9_ErrorDegradation ==
  [][lastOp'.op \in {"set", "get"} =>
       \A d \in Derived :
         LET threw == {i \in DOMAIN lastOp'.trace :
                         /\ lastOp'.trace[i].e = "recompute"
                         /\ lastOp'.trace[i].s = d
                         /\ lastOp'.trace[i].res = "threw"}
             other == {i \in DOMAIN lastOp'.trace :
                         /\ lastOp'.trace[i].e = "recompute"
                         /\ lastOp'.trace[i].s = d
                         /\ lastOp'.trace[i].res # "threw"}
         IN /\ \A i \in threw : Quiet(i)'
            /\ (threw # {} /\ other = {}) =>
                 /\ ~lastOp'.threw
                 /\ stores'[d].value = stores[d].value
                 /\ stores'[d].lastComputedValue = stores[d].lastComputedValue
                 /\ stores'[d].value = stores'[d].lastComputedValue
                 /\ Silent(d)'
                 /\ (lastOp'.op = "get" /\ getState(lastOp'.h) = d) =>
                      lastOp'.ret = stores[d].lastComputedValue]_vars

\* A set made the compute function of a derived store throw, which has a
\* listener and keeps a value it computed before
C9_Witness ==
  /\ lastOp.op = "set"
  /\ \E d \in Derived :
       /\ \E i \in RecomputesOf(d) : Trace[i].res = "threw"
       /\ stores[d].listeners # <<>>
       /\ stores[d].value # Undef
       /\ stores[d].value # Num(0)

\* C10: change suppression.  A recomputation whose result is Object.is the
\* lastComputedValue fires no listener and recomputes no dependent; when
\* every recomputation of a derived store in an operation is such, no
\* listener of it is invoked, no component observing it renders again and
\* nothing is recomputed because of it.
C10_ChangeSuppression ==
  \A d \in Derived :
    /\ \A i \in RecomputesOf(d) : Trace[i].res = "same" => Quiet(i)
    /\ (RecomputesOf(d) # {} /\ \A i \in RecomputesOf(d) : Trace[i].res = "same")
         => Silent(d)

\* A set replaced the base object, and a derived store reading its part a,
\* with a listener and a dependent, was recomputed to the identical value
C10_Witness ==
  /\ lastOp.op = "set"
  /\ IsObj(stores[getState(lastOp.h)].value)
  /\ Trace # <<>>
  /\ \E d \in Derived :
       /\ stores[d].getter.kind = "pickA"
       /\ stores[d].value = Num(1)
       /\ RecomputesOf(d) # {}
       /\ \A i \in RecomputesOf(d) : Trace[i].res = "same"
       /\ stores[d].listeners # <<>>
       /\ dependencyMap[d] # <<>>

\* C11: set on a derived store.  handle.set on the handle of a derived
\* store throws the read-only error, changes no store and no component's
\* snapshot, and invokes no listener and no recomputation.
C11_DerivedSetThrows ==
  [][(lastOp'.op = "set" /\ stores[getState(lastOp'.h)].isDerived) =>
       /\ lastOp'.threw
       /\ lastOp'.error = ReadOnlyError
       /\ stores' = stores
       /\ observers' = observers
       /\ lastOp'.trace = <<>>
       /\ lastOp'.marks = {}]_vars

\* set(1) was called on a derived store that holds 0, has a listener and a
\* dependent
C11_Witness ==
  /\ lastOp.op = "set" /\ lastOp.threw
  /\ lastOp.arg = Lit("one")
  /\ stores[getState(lastOp.h)].isDerived
  /\ stores[getState(lastOp.h)].value = Num(0)
  /\ stores[getState(lastOp.h)].listeners # <<>>
  /\ dependencyMap[getState(lastOp.h)] # <<>>

\* C12: derived stores are read-only by construction.  The value of a
\* derived store is the one its latest successful computation produced, and
\* no setter (handle.set, the setter of useStore) changes it.
C12_ReadOnlyByConstruction ==
  /\ [](\A d \in Derived :
          ObjectIs(stores[d].value, stores[d].lastComputedValue))
  /\ [][(lastOp'.op \in {"set", "hookset"}
          /\ stores[getState(lastOp'.h)].isDerived) =>
         ObjectIs(stores'[getState(lastOp'.h)].value,
                  stores[getState(lastOp'.h)].value)]_vars

\* C20: plain async load.  handle.async(fn) on a store that is not derived
\* invokes fn at once, returns the handle it was called on and changes no
\* store; when the invocation fulfils with r, r is written at the handle's
\* path as handle.set(r) writes it: unless r is Object.is the current value
\* there, the root is replaced by the copy that holds r at the path, every
\* listener of the store is invoked and every dependent is recomputed.
C20_PlainAsyncLoad ==
  [][/\ (lastOp'.op = "async" /\ ~stores[getState(lastOp'.h)].isDerived) =>
          /\ ~lastOp'.threw
          /\ lastOp'.handle = lastOp'.h
          /\ stores' = stores
          /\ observers' = observers
          /\ promises' = Append(promises,
                                Promise("load", getState(lastOp'.h), lastOp'.h,
                                        lastOp'.prop, Undef))
     /\ (/\ lastOp'.op = "settle" /\ lastOp'.hit
         /\ ~stores[getState(lastOp'.h)].isDerived) =>
          LET h == lastOp'.h
              s == getState(h)
              o == AsyncOutcome(lastOp'.prop, Undef, LiveIds)
          IN ~ObjectIs(o.val, proxyGet(stores, h)) =>
               /\ stores'[s].value =
                    IF h.path = <<>> THEN o.val
                    ELSE setValueAtPath(stores[s].value, h.path, o.val,
                                        o.used \cup Ids(o.val)).v
               /\ \A k \in DOMAIN stores[s].listeners :
                    \E i \in DOMAIN lastOp'.trace :
                      lastOp'.trace[i] = Fire(s, stores[s].listeners[k])
               /\ \A d \in SeqToSet(dependencyMap[s]) :
                    \E i \in DOMAIN lastOp'.trace :
                      /\ lastOp'.trace[i].e = "recompute"
                      /\ lastOp'.trace[i].s = d
                      /\ lastOp'.trace[i].cause = s]_vars

\* An invocation of async () => ({ a: 1 }) by a handle at a nested path
\* fulfilled; a listener was invoked and the dependent recomputed
C20_Witness ==
  /\ lastOp.op = "settle" /\ lastOp.hit /\ lastOp.prop = "obj"
  /\ lastOp.h.path # <<>>
  /\ \E i \in DOMAIN Trace : Trace[i].e = "fire"
  /\ \E i \in DOMAIN Trace : Trace[i].e = "recompute"
  /\ IsObj(proxyGet(stores, lastOp.h))

\* The stores derive made with a function that is not async
SyncDerived == {d \in Derived : ~stores[d].isAsync}

\* The async derived stores
AsyncDerived == {d \in DOMAIN stores : stores[d].isAsync}

\* The store a store made by derive was derived from
BaseOf(d) == getState(stores[d].getter.x)

\* C13: for D = B.derive(f), D.set(v) does not throw and writes v unchanged
\* into the base store B, so that afterwards B's value is v and D's value
\* is f(v).
C13_ChainedDeriveSet ==
  [][(lastOp'.op = "set") =>
       LET d == getState(lastOp'.h)
       IN (d \in SyncDerived /\ ~stores[BaseOf(d)].isDerived) =>
            /\ ~lastOp'.threw
            /\ stores'[BaseOf(d)].value = LitValue(lastOp'.arg.n, {})
            /\ stores'[d].value = GetterValue(stores[d].getter, stores')]_vars

\* The invocations of the async function of store a that have started and
\* have not settled
InFlight(a) ==
  {i \in DOMAIN promises :
     promises[i].s = a /\ promises[i].kind \in {"test", "run"}}

\* C14: in every reachable state each async derived store has at most one
\* invocation of its async function that has started and not yet settled.
C14_AtMostOneInFlight ==
  \A a \in AsyncDerived : Cardinality(InFlight(a)) <= 1

\* The value an async derived store holds once asyncFn(input) has settled,
\* up to the identity of a new object
OutcomeValue(fn, input) ==
  LET o == AsyncOutcome(fn, input, {})
  IN IF o.ok THEN o.val ELSE AsyncError(o, {})

\* The input of async derived store a in the stores st
InputOf(st, a) == st[BaseOf(a)].value

\* C15: a follow-up input is not dropped.  When no computation of an async
\* derived store is in flight and its value is not the outcome of its async
\* function for the current input (the input changed while the last
\* computation was in flight), a read of the store starts a computation
\* for the current input.
C15_FollowUpNotDropped ==
  [][(lastOp'.op = "get") =>
       LET a == getState(lastOp'.h)
       IN (/\ a \in AsyncDerived
           /\ ~stores[a].isRunning
           /\ ~DeepEqual(stores[a].value,
                         OutcomeValue(stores[a].asyncFn, InputOf(stores, a)))) =>
            /\ stores'[a].isRunning
            /\ \E i \in DOMAIN promises' :
                 promises'[i] = Promise("run", a, NoHandle, stores[a].asyncFn,
                                        InputOf(stores, a))]_vars

\* The loading sentinel { loading: true }
IsLoading(v) == IsObj(v) /\ v.f = [EmptyFields EXCEPT !["loading"] = Bool(TRUE)]

\* A computation of async derived store a is in flight
Running(a) ==
  \/ stores[a].isRunning
  \/ \E i \in DOMAIN promises : promises[i].kind = "run" /\ promises[i].s = a

RunsOf(ps, a) == {i \in DOMAIN ps : ps[i].kind = "run" /\ ps[i].s = a}

\* C17: when the base store of an async derived store that is not running
\* is set to a value that is not Object.is the recorded input, exactly one
\* invocation asyncFn(newInput) is started within the set call, the store's
\* value becomes the loading sentinel and its listeners are notified; when
\* that invocation fulfils, the store's value is the result for the new
\* input.
C17_RerunOnInputChange ==
  [][/\ (lastOp'.op = "set") =>
          LET b == getState(lastOp'.h)
              newInput == LitValue(lastOp'.arg.n, {})
          IN \A a \in AsyncDerived :
               (/\ BaseOf(a) = b /\ ~stores[b].isDerived
                /\ ~stores[a].isRunning
                /\ ~ObjectIs(newInput, stores[a].lastInputValue)) =>
                 /\ Cardinality(RunsOf(promises', a)) = 1
                 /\ \A i \in RunsOf(promises', a) :
                      promises'[i].input = newInput
                 /\ IsLoading(stores'[a].value)
                 /\ \A o \in SeqToSet(stores[a].listeners) :
                      Fire(a, o) \in SeqToSet(lastOp'.trace)
     /\ (lastOp'.op = "settleRun" /\ lastOp'.hit) =>
          LET a == getState(lastOp'.h)
          IN \A i \in RunsOf(promises, a) :
               DeepEqual(stores'[a].value,
                         OutcomeValue(promises[i].fn, promises[i].input))]_vars

\* The positions of the trace at which listeners of store a are invoked, and
\* at which store d is recomputed because store a changed
FiresAt(tr, a) == {j \in DOMAIN tr : tr[j].e = "fire" /\ tr[j].s = a}
RecomputesAt(tr, d, a) ==
  {j \in DOMAIN tr : tr[j].e = "recompute" /\ tr[j].s = d /\ tr[j].cause = a}

\* The derived stores that are not async among the dependents of store a
SyncDependents(a) == {d \in SeqToSet(dependencyMap[a]) : ~stores[d].isAsync}

\* C18: when the computation of an async derived store fulfils with r, the
\* store's value and lastComputedValue become r, the running guard is
\* cleared, the store's listeners are invoked, and then every synchronous
\* derived store that depends on it is recomputed from r.
C18_FulfilmentCascade ==
  [][(lastOp'.op = "settleRun" /\ lastOp'.hit) =>
       LET a == getState(lastOp'.h)
           tr == lastOp'.trace
       IN \A i \in RunsOf(promises, a) :
            LET r == AsyncOutcome(promises[i].fn, promises[i].input, LiveIds).val
            IN /\ stores'[a].value = r
               /\ stores'[a].lastComputedValue = r
               /\ ~stores'[a].isRunning
               /\ \A o \in SeqToSet(stores[a].listeners) :
                    \E j \in FiresAt(tr, a) : tr[j].o = o
               /\ \A d \in SyncDependents(a) :
                    /\ RecomputesAt(tr, d, a) # {}
                    /\ \A j \in RecomputesAt(tr, d, a), k \in FiresAt(tr, a) : k < j
                    /\ ~GetterThrows(stores[d].getter, stores') =>
                         DeepEqual(stores'[d].value,
                                   GetterValue(stores[d].getter, stores'))]_vars

\* A computation has fulfilled for an async derived store with a listener
\* and a synchronous dependent, whose value changed to the result
C18_Witness ==
  /\ lastOp.op = "settleRun" /\ lastOp.hit
  /\ LET a == getState(lastOp.h)
     IN \E d \in SyncDependents(a) :
          /\ stores[a].listeners # <<>>
          /\ \E j \in RecomputesAt(lastOp.trace, d, a) :
               lastOp.trace[j].res = "changed"
          /\ stores[d].value = stores[a].value
          /\ ~IsLoading(stores[a].value)

\* v is an object with error = true and the message and the status of the
\* Error of outcome o, or 'An error occurred' and 'error' where the Error
\* has none
IsErrorValue(v, o) ==
  /\ IsObj(v)
  /\ v.f["error"] = Bool(TRUE)
  /\ v.f["message"] = IF o.message \in {Undef, Str("")}
                      THEN Str("An error occurred") ELSE o.message
  /\ v.f["status"] = IF o.status \in {Undef, Str(""), Num(0)}
                     THEN Str("error") ELSE o.status

\* C19: when an async computation (of an async derived store, or of a plain
\* store.async) rejects with e, no exception propagates to any caller, the
\* store's value becomes an object with error = true, message = e.message or
\* 'An error occurred', status = e.status or 'error', and the store's
\* listeners are notified.
C19_RejectionBecomesValue ==
  [][/\ (lastOp'.op = "settleRun" /\ ~lastOp'.hit) =>
          LET a == getState(lastOp'.h)
          IN \A i \in RunsOf(promises, a) :
               /\ ~lastOp'.threw
               /\ IsErrorValue(stores'[a].value,
                               AsyncOutcome(promises[i].fn, promises[i].input, {}))
               /\ \A o \in SeqToSet(stores[a].listeners) :
                    \E j \in FiresAt(lastOp'.trace, a) : lastOp'.trace[j].o = o
     /\ (lastOp'.op = "settleLoad" /\ ~lastOp'.hit) =>
          LET s == getState(lastOp'.h)
          IN /\ ~lastOp'.threw
             /\ IsErrorValue(proxyGet(stores', lastOp'.h),
                             AsyncOutcome(lastOp'.prop, Undef, {}))
             /\ \A o \in SeqToSet(stores[s].listeners) :
                  \E j \in FiresAt(lastOp'.trace, s) : lastOp'.trace[j].o = o]_vars

\* The computation of an async derived store with a listener has rejected
\* with an Error that has no message and no status
C19_Witness ==
  /\ lastOp.op = "settleRun" /\ ~lastOp.hit
  /\ LET a == getState(lastOp.h)
     IN /\ stores[a].listeners # <<>>
        /\ Fire(a, stores[a].listeners[1]) \in SeqToSet(lastOp.trace)
        /\ GetProp(stores[a].value, "message") = Str("An error occurred")
        /\ GetProp(stores[a].value, "status") = Str("error")

\* C28: within one effective set every listener registered on the mutated
\* store is invoked exactly once, in registration order, and only after the
\* last of them has returned is any dependent derived store recomputed; all
\* of this is done when set returns.
C28_NotificationOrder ==
  [][(lastOp'.op = "set" /\ ~lastOp'.threw) =>
       LET s == getState(lastOp'.h)
           n == Len(stores[s].listeners)
           tr == lastOp'.trace
       IN ~ObjectIs(stores'[s].value, stores[s].value) =>
            /\ Len(tr) >= n
            /\ SubSeq(tr, 1, n) = Fires(s, stores[s].listeners)
            /\ \A j \in DOMAIN tr : j > n => ~(tr[j].e = "fire" /\ tr[j].s = s)
            /\ \A d \in SeqToSet(dependencyMap[s]) :
                 \E j \in DOMAIN tr :
                   j > n /\ tr[j].e = "recompute" /\ tr[j].s = d]_vars

\* A set has invoked two listeners of the store and then recomputed a
\* dependent, whose value changed
C28_Witness ==
  /\ lastOp.op = "set"
  /\ LET s == getState(lastOp.h)
         tr == lastOp.trace
     IN /\ Len(stores[s].listeners) = 2
        /\ Len(tr) >= 3
        /\ tr[1] = Fire(s, stores[s].listeners[1])
        /\ tr[2] = Fire(s, stores[s].listeners[2])
        /\ tr[3].e = "recompute" /\ tr[3].res = "changed"

\* C29: after every recomputation of a derived store (the initial one, one a
\* dependency's mutation triggered, one get() triggered) its dependency set
\* contains exactly the stores read through get during that evaluation.
C29_DependenciesRebuilt ==
  \A d \in Derived : stores[d].dependencies = stores[d].lastRead

\* C30: in every reachable state the dependency map is the transpose of the
\* derived stores' dependency sets (D is a dependent of S iff S is in D's
\* dependency set), and it has no stale edge: D is a dependent of S only if
\* the last evaluation of D's compute function read S.
C30_TransposeReconciled ==
  \A s \in DOMAIN stores, d \in Derived :
    /\ d \in SeqToSet(dependencyMap[s]) <=> s \in stores[d].dependencies
    /\ d \in SeqToSet(dependencyMap[s]) => s \in stores[d].lastRead

\* A call of a predicate returned a truthy value; it returned a falsy one
Yes(r) == ~r.threw /\ Truthy(r.val)
No(r) == ~r.threw /\ ~Truthy(r.val)

\* C27: the status predicates classify every value an async store holds:
\* while loading isLoading is true and isError and isSuccess are not; after
\* a rejection isError is true and the other two are not; after fulfilment
\* with any result isSuccess is true and the other two are not; none throws.
C27_StatusPredicates ==
  /\ [](\A a \in AsyncDerived :
          Running(a) => /\ Yes(isLoadingV2(stores[a].value))
                        /\ No(isErrorV2(stores[a].value))
                        /\ No(isSuccessV2(stores[a].value)))
  /\ [][(lastOp'.op = "settleRun") =>
          LET v == stores'[getState(lastOp'.h)].value
          IN IF lastOp'.hit
             THEN Yes(isSuccessV2(v)) /\ No(isErrorV2(v)) /\ No(isLoadingV2(v))
             ELSE Yes(isErrorV2(v)) /\ No(isSuccessV2(v)) /\ No(isLoadingV2(v))]_vars

\* C25: for every handle h of a store that is not derived, with path p, and
\* every property key k, h[k] is the handle for path [...p, k] of the same
\* store: its get() reads and its set() writes the value at [...p, k].
C25_PropertyAccess ==
  [][/\ (lastOp'.op = "access" /\ ~stores[getState(lastOp'.h)].isDerived) =>
          /\ ~lastOp'.threw
          /\ lastOp'.handle \in proxies'
          /\ getState(lastOp'.handle) = getState(lastOp'.h)
          /\ lastOp'.handle.path = Append(lastOp'.h.path, lastOp'.prop)
     /\ (lastOp'.op = "get" /\ ~stores[getState(lastOp'.h)].isDerived) =>
          lastOp'.ret = getValueAtPath(stores[getState(lastOp'.h)].value,
                                       lastOp'.h.path)
     /\ (lastOp'.op = "set" /\ ~stores[getState(lastOp'.h)].isDerived) =>
          DeepEqual(getValueAtPath(stores'[getState(lastOp'.h)].value,
                                   lastOp'.h.path),
                    LitValue(lastOp'.arg.n, {}))]_vars
JsonSamples ==
  {Null, Num(0), Num(1), Num(2)}
  \cup {Obj(1, [EmptyFields EXCEPT ![k] = Num(1)]) : k \in Keys}

\* C22: when the backend holds the serialization of a JSON value under the
\* key, JSON null included, the store local(key)/session(key) creates
\* starts with that value whatever the current value of the source handle
\* is; when the key is absent it starts with the source handle's value.
C22_PersistedValuePrecedence ==
  [][lastOp'.op \in StorageTypes =>
       LET item == storage[lastOp'.op][lastOp'.prop]
           v == stores'[getState(lastOp'.handle)].value
       IN /\ \A j \in JsonSamples :
               item = JSONstringify(j) => DeepEqual(v, j)
          /\ item = NoItem => ObjectIs(v, stores[getState(lastOp'.h)].value)]_vars

\* A store persisted from a source holding a value other than null starts
\* with the null the backend holds
C22_Witness ==
  /\ lastOp.op \in StorageTypes
  /\ storage[lastOp.op][lastOp.prop] = JSONstringify(Null)
  /\ stores[getState(lastOp.handle)].value = Null
  /\ stores[getState(lastOp.h)].value # Null
\* C24: local(key)/session(key) return the handle of a new store that is
\* not derived; a write to the source store, or an async result arriving on
\* it, leaves the value of the persisted store as it is, and a write to the
\* persisted store leaves the value of the source store as it is.
C24_PersistedStoreIndependent ==
  [][/\ lastOp'.op \in StorageTypes =>
          /\ getState(lastOp'.handle) \notin DOMAIN stores
          /\ getState(lastOp'.handle) \in DOMAIN stores'
          /\ ~stores'[getState(lastOp'.handle)].isDerived
          /\ lastOp'.handle \notin proxies
     /\ lastOp'.op \in {"set", "settle"} =>
          \A s \in DOMAIN savers :
            LET src == savers[s].source
            IN /\ getState(lastOp'.h) = src =>
                    stores'[s].value = stores[s].value
               /\ getState(lastOp'.h) = s =>
                    stores'[src].value = stores[src].value]_vars

\* An async result has arrived on the source and the store persisted from
\* it still holds another value
C24_Witness ==
  /\ lastOp.op = "settle" /\ lastOp.hit
  /\ \E s \in DOMAIN savers :
       /\ savers[s].source = getState(lastOp.h)
       /\ stores[savers[s].source].value = Num(1)
       /\ stores[s].value # Num(1)
\* The save timers of persisted store s that have not fired
PendingSaves(tm, s) == {p \in tm.pending : p.s = s}

\* C21: however many effective mutations of a persisted store run before
\* its save timer fires, one setItem is outstanding for the store; none is
\* performed by the mutations themselves; the one performed when the timer
\* fires writes the serialization of the value the store has then, under
\* the store's key.
C21_DebouncedPersistence ==
  /\ [](\A s \in DOMAIN savers : Cardinality(PendingSaves(timers, s)) <= 1)
  /\ [][/\ lastOp'.op \in {"set", "settle"} =>
             /\ storage' = storage /\ timers'.saves = timers.saves
             /\ \A s \in DOMAIN savers :
                  ~ObjectIs(stores'[s].value, stores[s].value) =>
                    Cardinality(PendingSaves(timers', s)) = 1
        /\ lastOp'.op = "timer" =>
             LET s == getState(lastOp'.h)
             IN /\ timers'.saves = timers.saves + 1
                /\ PendingSaves(timers', s) = {}
                /\ storage' =
                     [storage EXCEPT ![savers[s].type][savers[s].key] =
                        StringOf(JSONstringify(stores[s].value))]]_vars

\* Two mutations of a persisted store set a timer each, and the one
\* setItem that followed wrote the value of the second
C21_Witness ==
  /\ lastOp.op = "timer"
  /\ timers.next = 3 /\ timers.saves = 1 /\ timers.pending = {}
  /\ LET s == getState(lastOp.h)
     IN /\ stores[s].value # Undef
        /\ storage[savers[s].type][savers[s].key]
             = JSONstringify(stores[s].value)
\* C23: when the key is absent from the backend, local(key)/session(key)
\* seed the new store from the current value of the source handle and
\* schedule the save of that value, so that the backend holds it after the
\* debounce window without any mutation of the store.
C23_InitialValuePersisted ==
  [][(lastOp'.op \in StorageTypes
        /\ storage[lastOp'.op][lastOp'.prop] = NoItem) =>
       LET s == getState(lastOp'.handle)
       IN /\ ObjectIs(stores'[s].value, stores[getState(lastOp'.h)].value)
          /\ \/ PendingSaves(timers', s) # {}
             \/ storage'[lastOp'.op][lastOp'.prop]
                  = StringOf(JSONstringify(stores'[s].value))]_vars
\* C31: handle.derive(asyncFn) that creates an async derived store invokes
\* asyncFn once: one invocation, for the initial input, is started by the
\* creation.
C31_SingleInitialInvocation ==
  [][(lastOp'.op = "derive" /\ ~lastOp'.threw
        /\ stores'[getState(lastOp'.handle)].isAsync) =>
       /\ Len(promises') = Len(promises) + 1
       /\ promises'[Len(promises')].s = getState(lastOp'.handle)
       /\ promises'[Len(promises')].input = stores[getState(lastOp'.h)].value]_vars
\* C32: the outcome of a started computation of an async derived store is
\* applied when it settles: the store's value becomes the result, or the
\* error value, for the input the computation was started with, and the
\* running guard is cleared, whether or not the input changed meanwhile.
C32_NoCancellation ==
  [][(lastOp'.op = "settleRun") =>
       LET a == getState(lastOp'.h)
       IN /\ RunsOf(promises, a) # {}
          /\ \A i \in RunsOf(promises, a) :
               /\ DeepEqual(stores'[a].value,
                            OutcomeValue(promises[i].fn, promises[i].input))
               /\ DeepEqual(stores'[a].lastComputedValue, stores'[a].value)
               /\ ~stores'[a].isRunning
               /\ RunsOf(promises', a) = {}]_vars

\* A computation started with input 0 has settled after the input became
\* 1, and its result 0 is the store's value
C32_Witness ==
  /\ lastOp.op = "settleRun" /\ lastOp.hit
  /\ LET a == getState(lastOp.h)
     IN /\ stores[a].value = Num(0)
        /\ InputOf(stores, a) = Num(1)
        /\ stores[a].lastInputValue = Num(1)
        /\ ~stores[a].isRunning
\* C33: set on a handle of a store that is not derived does not throw to
\* its caller, whatever derived stores, synchronous or async, depend on the
\* store.
C33_SetNeverThrows ==
  [][(lastOp'.op = "set" /\ ~stores[getState(lastOp'.h)].isDerived) =>
       ~lastOp'.threw /\ lastOp'.error = ""]_vars
\* The stores st with the values vals
WithValues(st, vals) == [i \in DOMAIN st |-> [st[i] EXCEPT !.value = vals[i]]]

\* The stores st with the value of each of the first n that is derived
\* replaced by what its compute function yields from the values before it
RECURSIVE FromBases(_, _)
FromBases(st, n) ==
  IF n = 0 THEN st
  ELSE LET p == FromBases(st, n - 1)
       IN IF p[n].isDerived /\ ~GetterThrows(p[n].getter, p)
          THEN [p EXCEPT ![n].value = GetterValue(p[n].getter, p)]
          ELSE p

\* C34: whenever a set of a base store invokes the listeners of a derived
\* store, the value of that derived store is the one its compute function
\* yields from the current values of the base stores; no listener sees a
\* value computed from one updated and one not yet updated source.
C34_GlitchFreedom ==
  [][(lastOp'.op = "set") =>
       \A j \in DOMAIN lastOp'.seen :
         LET d == lastOp'.seen[j].s
             st == WithValues(stores', lastOp'.seen[j].vals)
         IN stores[d].isDerived =>
              DeepEqual(st[d].value, FromBases(st, Len(st))[d].value)]_vars
\* What the compute function of getter g yields in the stores st when
\* get(h) is the value at the path of h
ValueFromPath(g, st) ==
  GetterValue(g, [st EXCEPT ![getState(g.x)].value = proxyGet(st, g.x)])

\* C35: a store computed from a handle h with store(get => f(get(h))) or
\* with h.derive(f) holds f of the value at the path of h, the value
\* h.get() returns, when it is created and when it is read.
C35_ComputeFromPath ==
  [][/\ (lastOp'.op = "derive" /\ ~lastOp'.threw) =>
          LET d == getState(lastOp'.handle)
          IN DeepEqual(stores'[d].value,
                       ValueFromPath(stores'[d].getter, stores))
     /\ (lastOp'.op = "get" /\ stores[getState(lastOp'.h)].isDerived) =>
          DeepEqual(lastOp'.ret,
                    ValueFromPath(stores[getState(lastOp'.h)].getter,
                                  stores))]_vars
\* C36: the handle a property access returns for key k on a handle of path
\* p is a handle whose recorded path is [...p, k], an object other than
\* the handle it was read from, and handles of one store whose paths
\* differ are different objects held under different cache keys.
C36_CacheInjective ==
  /\ (lastOp.op = "access" /\ ~lastOp.threw /\ lastOp.prop \notin MemberNames) =>
       /\ lastOp.handle.path = Append(lastOp.h.path, lastOp.prop)
       /\ lastOp.handle # lastOp.h
  /\ \A h1 \in proxies, h2 \in proxies :
       (getState(h1) = getState(h2) /\ h1.path # h2.path) =>
         Join(h1.path) # Join(h2.path)
\* C37: get() of any handle is a pure read: it changes no store's value
\* or lastComputedValue, starts no asynchronous computation and invokes no
\* listener.
C37_GetIsPure ==
  [][(lastOp'.op = "get") =>
       /\ \A s \in DOMAIN stores :
            /\ stores'[s].value = stores[s].value
            /\ stores'[s].lastComputedValue = stores[s].lastComputedValue
            /\ stores'[s].isRunning = stores[s].isRunning
       /\ promises' = promises
       /\ \A j \in DOMAIN lastOp'.trace : lastOp'.trace[j].e # "fire"]_vars
\* C38: every edge of the dependency map points from a store to a derived
\* store created after it, so the map has no cycle, and every
\* recomputation in the cascade of a set is that of a store created after
\* the store whose change caused it: the cascade descends along creation
\* order and ends.
C38_AcyclicDependencies ==
  /\ [](\A s \in DOMAIN dependencyMap :
          \A d \in SeqToSet(dependencyMap[s]) :
            d \in DOMAIN stores /\ s < d /\ stores[d].isDerived)
  /\ [][(lastOp'.op = "set") =>
          \A j \in DOMAIN lastOp'.trace :
            lastOp'.trace[j].e = "recompute" =>
              /\ getState(lastOp'.h) <= lastOp'.trace[j].cause
              /\ lastOp'.trace[j].cause < lastOp'.trace[j].s]_vars

\* A set has recomputed a derived store because another derived store,
\* recomputed before it, changed
C38_Witness ==
  /\ lastOp.op = "set"
  /\ \E j \in DOMAIN lastOp.trace :
       /\ lastOp.trace[j].e = "recompute"
       /\ stores[lastOp.trace[j].cause].isDerived
       /\ lastOp.trace[j].res = "changed"

====
